---- MODULE Spec2Model ----
(***************************************************************************)
(* Loan lifecycle and contribution ledger of the chit-fund application.    *)
(* The state is the relational store (profiles, loan_requests,             *)
(* transactions, payment_proofs, notifications), the payment-proofs        *)
(* storage bucket, a clock, and the request/response of the most recent    *)
(* call.  Each action is one edge-function handler run to completion on    *)
(* one request (requests are served one after another in Spec); a store    *)
(* call of the handler may return an error, chosen by the request's        *)
(* `fails` set, and nothing written before the error is rolled back.       *)
(* `loanForm` is the state of the member's loan request page; `inflight`   *)
(* holds the requests that RaceSpec serves one store call at a time.       *)
(***************************************************************************)
EXTENDS Integers, Sequences, FiniteSets, TLC

VARIABLES profiles, loan_requests, transactions, payment_proofs, notifications,
          bucket, now, last, loanForm, inflight

vars == <<profiles, loan_requests, transactions, payment_proofs, notifications,
          bucket, now, last, loanForm, inflight>>

tables == <<profiles, loan_requests, transactions, payment_proofs, notifications,
            bucket>>

-----------------------------------------------------------------------------
(* Bounds of the model. *)

\* requests the edge functions serve in one behaviour
MaxOps == 3
\* rows of loan_requests
MaxLoans == 2
\* rows of payment_proofs
MaxProofs == 2
\* rows of transactions
MaxTx == 4
\* store calls that return an error within one request
MaxFails == 1
\* characters of a text column, and rows, of an exported table
MaxFieldLen == 1
MaxCsvRows == 2
\* requests of the loan handlers that run side by side
MaxRequests == 3
\* elements of the users array of one admin-bulk-create-users request
MaxUsers == 2

-----------------------------------------------------------------------------
(* Reference data and identities. *)

Admin == "a1"
Members == {"m1", "m2"}
UserIds == {Admin} \cup Members

\* a request without an Authorization header, and one whose token getUser rejects
NoHeader == "no-header"
BadToken == "bad-token"
Callers == {NoHeader, BadToken} \cup UserIds

\* rows of the loan_tiers table: amount, fine, repayment_info
\* (repayment_info is text, kept as its characters)
LoanTiers ==
    { [amount |-> 5000,   eligibility_months |-> 0,  fine |-> 250,
       repayment_info |-> <<"3", " ", "M", "o", "n", "t", "h", "s">>],
      [amount |-> 20000,  eligibility_months |-> 6,  fine |-> 1000,
       repayment_info |-> <<"6", " ", "M", "o", "n", "t", "h", "s">>],
      [amount |-> 100000, eligibility_months |-> 12, fine |-> 5000,
       repayment_info |-> <<"1", "2", " ", "m", "o", "n", "t", "h", "s">>] }

TierAmounts == {t.amount : t \in LoanTiers}

\* an amount that is no tier's amount
OffTierAmount == 7000

LoanStatuses == {"pending", "approved", "in-process", "rejected", "closed"}

\* falsy values of a JSON body
NoId == 0
NoText == ""

-----------------------------------------------------------------------------
(* Dates.  A Date is [y, m, d] with m in 0..11 as JavaScript counts months; *)
(* the ISO string the store keeps is [year, month, day] with month 1..12.  *)
(* The edge runtime's time zone is UTC, so local fields are UTC fields.    *)

NullDate == [year |-> 0, month |-> 0, day |-> 0]

\* new Date(year, monthIndex, 1): the month index overflows into the year
NewDate(year, monthIndex, day) ==
    [y |-> year + (monthIndex \div 12), m |-> monthIndex % 12, d |-> day]

IsLeap(y) == (y % 4 = 0 /\ y % 100 # 0) \/ y % 400 = 0

DaysInMonth(y, m) ==
    IF m = 1 THEN (IF IsLeap(y) THEN 29 ELSE 28)
    ELSE IF m \in {3, 5, 8, 10} THEN 30 ELSE 31

\* date-fns addMonths: the day is clamped to the target month's length
addMonths(date, n) ==
    LET t  == NewDate(date.y, date.m + n, 1)
        dm == DaysInMonth(t.y, t.m)
    IN  [y |-> t.y, m |-> t.m, d |-> IF date.d > dm THEN dm ELSE date.d]

\* Date.prototype.toISOString
toISOString(date) == [year |-> date.y, month |-> date.m + 1, day |-> date.d]

\* date <= other, as the comparison of two Date objects
DateLeq(a, b) ==
    \/ a.y < b.y
    \/ a.y = b.y /\ a.m < b.m
    \/ a.y = b.y /\ a.m = b.m /\ a.d <= b.d

\* the calendar day of new Date()
Today == [y |-> 2025, m |-> 0, d |-> 31]

\* date-fns addDays, for n >= 0
RECURSIVE addDays(_, _)
addDays(date, n) ==
    IF n = 0 THEN date
    ELSE IF date.d < DaysInMonth(date.y, date.m)
    THEN addDays([date EXCEPT !.d = @ + 1], n - 1)
    ELSE addDays(NewDate(date.y, date.m + 1, 1), n - 1)

\* gte and lt of two stored dates, as the store compares timestamps
IsoGte(a, b) ==
    \/ a.year > b.year
    \/ a.year = b.year /\ a.month > b.month
    \/ a.year = b.year /\ a.month = b.month /\ a.day >= b.day

IsoLt(a, b) == ~IsoGte(a, b)

-----------------------------------------------------------------------------
(* Store helpers. *)

Range(seq) == {seq[i] : i \in 1..Len(seq)}

\* the calls of one request that return an error
FailSets(calls) == {f \in SUBSET Range(calls) : Cardinality(f) <= MaxFails}

Response(code, msg) == [code |-> code, msg |-> msg]

Max(S) == CHOOSE x \in S : \A y \in S : y <= x

\* faulty variant: the id of the latest row is given again
NewId_Reused(t) == IF DOMAIN t = {} THEN 1 ELSE Max(DOMAIN t)

\* the id the store gives a newly inserted row of table t
NewId(t) == IF DOMAIN t = {} THEN 1 ELSE Max(DOMAIN t) + 1

\* rpc increment_user_outstanding_amount(user_uuid, amount_to_add)
increment_user_outstanding_amount(p, user_uuid, amount_to_add) ==
    IF user_uuid \in DOMAIN p
    THEN [p EXCEPT ![user_uuid].outstanding_amount = @ + amount_to_add]
    ELSE p

\* loan_tiers rows whose amount equals the given amount (.eq('amount', ...))
TiersFor(amount) == {t \in LoanTiers : t.amount = amount}

\* auth.getUser(token) finds a user: the token of a deleted account finds none
Authenticated(caller) == caller \in DOMAIN profiles

\* faulty variant: the caller's role is not looked at
AdminCheck_AnyUser(caller, fails, noUserMsg) ==
    IF caller = NoHeader THEN Response(500, "Authorization header missing")
    ELSE IF ~Authenticated(caller) THEN Response(500, noUserMsg)
    ELSE IF "profiles.role" \in fails
         THEN Response(403, "You must be an admin to perform this action.")
         ELSE Response(0, "ok")

\* the admin gate every admin handler opens with: "ok", or the response that
\* ends the request
AdminCheck(caller, fails, noUserMsg) ==
    IF caller = NoHeader THEN Response(500, "Authorization header missing")
    ELSE IF ~Authenticated(caller) THEN Response(500, noUserMsg)
    ELSE IF "profiles.role" \in fails \/ profiles[caller].role # "admin"
         THEN Response(403, "You must be an admin to perform this action.")
         ELSE Response(0, "ok")

\* the calls of a handler, in the order it makes them, up to and including c
UpTo(order, c) ==
    {order[i] : i \in {i \in 1..Len(order) : \E j \in i..Len(order) : order[j] = c}}

\* the request is answered: `failed` keeps the store calls that were made and returned
\* an error
Answer(op, caller, req, failed, resp) ==
    /\ last' = [op |-> op, caller |-> caller, req |-> req, failed |-> failed,
                code |-> resp.code, msg |-> resp.msg]
    /\ now' = now + 1

\* the answer of a handler that runs to completion in one step
Reply(op, caller, req, failed, resp) ==
    /\ Answer(op, caller, req, failed, resp)
    /\ UNCHANGED <<loanForm, inflight>>

RoleFailSets == FailSets(<<"profiles.role">>)

\* the last call an authentication or authorisation refusal has made
AuthCall(caller) == IF Authenticated(caller) THEN "profiles.role" ELSE "none"

\* the loan request page before a member opens it
NoForm == [user |-> NoText, amount |-> 0, guarantorId |-> NoText,
           guarantor2Id |-> NoText]

-----------------------------------------------------------------------------
Init ==
    /\ profiles = [u \in UserIds |->
                     [role |-> IF u = Admin THEN "admin" ELSE "user",
                      outstanding_amount |-> 0]]
    /\ loan_requests = << >>
    /\ transactions = << >>
    /\ payment_proofs = << >>
    /\ notifications = << >>
    /\ bucket = {}
    /\ now = 1
    /\ last = [op |-> "none", caller |-> NoHeader, req |-> << >>, failed |-> {}, code |-> 0, msg |-> ""]
    /\ loanForm = NoForm
    /\ inflight = << >>

-----------------------------------------------------------------------------
(* repayment_info.match(/(\d+)\s+Months/) and parseInt of its group. *)

Digits == <<"0", "1", "2", "3", "4", "5", "6", "7", "8", "9">>

IsDigit(c) == \E i \in 1..10 : Digits[i] = c

DigitValue(c) == (CHOOSE i \in 1..10 : Digits[i] = c) - 1

IsSpace(c) == c \in {" ", "\t", "\n"}

RECURSIVE parseInt(_)
parseInt(ds) ==
    IF ds = << >> THEN 0
    ELSE 10 * parseInt(SubSeq(ds, 1, Len(ds) - 1)) + DigitValue(ds[Len(ds)])

MonthsWord == <<"M", "o", "n", "t", "h", "s">>

\* the matches of the pattern in s, as <<first digit, last digit>> positions
MonthsMatches(s) ==
    { p \in (1..Len(s)) \X (1..Len(s)) :
        /\ p[1] <= p[2]
        /\ \A i \in p[1]..p[2] : IsDigit(s[i])
        /\ \E k \in (p[2] + 2)..Len(s) :
              /\ \A i \in (p[2] + 1)..(k - 1) : IsSpace(s[i])
              /\ k + 5 <= Len(s)
              /\ SubSeq(s, k, k + 5) = MonthsWord }

\* monthsMatch is not null
monthsMatch(s) == MonthsMatches(s) # {}

\* parseInt(monthsMatch[1], 10) of the leftmost, longest match
monthsToAdd(s) ==
    LET first == CHOOSE p \in MonthsMatches(s) :
                   \A q \in MonthsMatches(s) :
                      p[1] < q[1] \/ (p[1] = q[1] /\ p[2] >= q[2])
    IN  parseInt(SubSeq(s, first[1], first[2]))

-----------------------------------------------------------------------------
(* admin-create-loan *)

CreateLoanCalls ==
    <<"profiles.role", "profiles.names", "loan_requests.insert", "loan_tiers.fine",
      "rpc.increment", "transactions.personal", "transactions.public">>

CreateLoanFailSets == FailSets(CreateLoanCalls)

IssueDate == [year |-> 2024, month |-> 6, day |-> 1]
DueDate == [year |-> 2025, month |-> 2, day |-> 1]

CreateLoanBody(userId, amount, guarantorId, status, issueDate, dueDate) ==
    [userId |-> userId, amount |-> amount, guarantorId |-> guarantorId,
     status |-> status, issueDate |-> issueDate, dueDate |-> dueDate]

\* well-formed bodies: every status for one borrower and tier, and each other
\* field varied for a loan entered as pending and as in-process
ValidCreateLoanBodies ==
    { CreateLoanBody("m1", 5000, "m2", s, IssueDate, NullDate) : s \in LoanStatuses }
    \cup UNION { { CreateLoanBody("m2", 5000, "m1", s, IssueDate, NullDate),
                   CreateLoanBody("m1", 100000, "m2", s, IssueDate, NullDate),
                   CreateLoanBody("m1", OffTierAmount, "m2", s, IssueDate, NullDate),
                   CreateLoanBody("m1", 5000, "m2", s, IssueDate, DueDate) } :
                 s \in {"pending", "in-process"} }

\* bodies with one field missing or an unknown status
InvalidCreateLoanBodies ==
    { CreateLoanBody(NoText, 5000, "m2", "closed", IssueDate, NullDate),
      CreateLoanBody("m1", 0, "m2", "closed", IssueDate, NullDate),
      CreateLoanBody("m1", 5000, NoText, "closed", IssueDate, NullDate),
      CreateLoanBody("m1", 5000, "m2", NoText, IssueDate, NullDate),
      CreateLoanBody("m1", 5000, "m2", "closed", NullDate, NullDate),
      CreateLoanBody("m1", 5000, "m2", "paid", IssueDate, NullDate) }

CreateLoanBodies == ValidCreateLoanBodies \cup InvalidCreateLoanBodies

\* faulty variant: approved is let through as well
CreateLoanAccepted_All == LoanStatuses

\* the statuses the body's status may take
CreateLoanAccepted == {"pending", "in-process", "rejected", "closed"}

\* faulty variant: a loan entered as closed gets no financial updates
FundsDisbursed_InProcessOnly(status) == status = "in-process"

\* the statuses whose loans get the financial updates of a disbursement
FundsDisbursed(status) == status = "in-process" \/ status = "closed"

AdminCreateLoanOn(caller, body, fails) ==
    LET auth == AdminCheck(caller, fails, "Admin user not authenticated")
        id   == NewId(loan_requests)
        row  == [user_id |-> body.userId, amount |-> body.amount,
                 guarantor_id |-> body.guarantorId, status |-> body.status,
                 created_at |-> body.issueDate, due_date |-> body.dueDate,
                 processed_by |-> IF body.status # "pending" THEN caller ELSE NoText,
                 processed_at |-> IF body.status # "pending" THEN now ELSE 0,
                 rejection_reason |-> NoText, guarantor_2_id |-> NoText]
        total == body.amount + (CHOOSE t \in TiersFor(body.amount) : TRUE).fine
        personal == [user_id |-> body.userId, type |-> "withdrawal",
                     amount |-> body.amount, created_at |-> body.issueDate]
        public == [user_id |-> NoText, type |-> "withdrawal",
                   amount |-> body.amount, created_at |-> body.issueDate]
        Done(resp, upto) ==
            Reply("admin-create-loan", caller, body, fails \cap UpTo(CreateLoanCalls, upto), resp)
    IN
    /\ UNCHANGED <<payment_proofs, notifications, bucket>>
    /\ IF auth.code # 0
       THEN Done(auth, AuthCall(caller)) /\ UNCHANGED <<profiles, loan_requests, transactions>>
       ELSE IF \/ body.userId = NoText \/ body.amount = 0
               \/ body.guarantorId = NoText \/ body.status = NoText
               \/ body.issueDate = NullDate
               \/ body.status \notin CreateLoanAccepted
       THEN /\ Done(Response(400, "Missing or invalid required fields."), "profiles.role")
            /\ UNCHANGED <<profiles, loan_requests, transactions>>
       ELSE IF "profiles.names" \in fails
       THEN /\ Done(Response(500, "store error"), "profiles.names")
            /\ UNCHANGED <<profiles, loan_requests, transactions>>
       ELSE IF "loan_requests.insert" \in fails
       THEN /\ Done(Response(500, "store error"), "loan_requests.insert")
            /\ UNCHANGED <<profiles, loan_requests, transactions>>
       ELSE
         /\ loan_requests' = loan_requests @@ (id :> row)
         /\ IF ~FundsDisbursed(body.status)
            THEN /\ Done(Response(200, "Loan created successfully"),
                         "loan_requests.insert")
                 /\ UNCHANGED <<profiles, transactions>>
            ELSE IF "loan_tiers.fine" \in fails \/ TiersFor(body.amount) = {}
            THEN /\ Done(Response(500, "Could not find loan tier"), "loan_tiers.fine")
                 /\ UNCHANGED <<profiles, transactions>>
            ELSE IF "rpc.increment" \in fails
            THEN /\ Done(Response(500, "store error"), "rpc.increment")
                 /\ UNCHANGED <<profiles, transactions>>
            ELSE
              /\ profiles' = increment_user_outstanding_amount(
                                 profiles, body.userId, total)
              /\ IF "transactions.personal" \in fails
                 THEN /\ Done(Response(500, "store error"), "transactions.personal")
                      /\ UNCHANGED transactions
                 ELSE IF "transactions.public" \in fails
                 THEN /\ Done(Response(500, "store error"), "transactions.public")
                      /\ transactions' = Append(transactions, personal)
                 ELSE /\ Done(Response(200, "Loan created successfully"),
                              "transactions.public")
                      /\ transactions' = transactions \o <<personal, public>>

AdminCreateLoan ==
    /\ now <= MaxOps
    /\ Cardinality(DOMAIN loan_requests) < MaxLoans
    /\ Len(transactions) + 2 <= MaxTx
    /\ \/ \E body \in CreateLoanBodies, fails \in CreateLoanFailSets :
            AdminCreateLoanOn(Admin, body, fails)
       \/ \E caller \in Callers \ {Admin}, fails \in RoleFailSets :
            AdminCreateLoanOn(caller,
                CreateLoanBody("m1", 5000, "m2", "closed", IssueDate, NullDate), fails)

-----------------------------------------------------------------------------
(* process-loan-request *)

ProcessLoanCalls ==
    <<"profiles.role", "loan_requests.select", "loan_tiers.repayment_info",
      "loan_requests.update">>

ProcessLoanFailSets == FailSets(ProcessLoanCalls)

ProcessLoanBody(loanId, status, rejection_reason) ==
    [loanId |-> loanId, status |-> status, rejection_reason |-> rejection_reason]

\* an approval, a rejection with and without a reason for every loan id, and
\* bodies with a field missing or a status that is no decision
ProcessLoanBodies ==
    { ProcessLoanBody(id, "approved", NoText) : id \in 1..MaxLoans }
    \cup { ProcessLoanBody(id, "rejected", r) :
             id \in 1..MaxLoans, r \in {NoText, "not eligible"} }
    \cup { ProcessLoanBody(NoId, "approved", NoText),
           ProcessLoanBody(NoId, "rejected", NoText),
           ProcessLoanBody(1, NoText, NoText),
           ProcessLoanBody(1, "closed", "not eligible") }

\* faulty variant: an approved loan may be decided again
AlreadyProcessed_Lax(loanRequest) == loanRequest.status \notin {"pending", "approved"}

\* the loan is no longer awaiting a decision
AlreadyProcessed(loanRequest) == loanRequest.status # "pending"

\* a rejection that carries no reason
RejectionReasonMissing(body) ==
    body.status = "rejected" /\ body.rejection_reason = NoText

\* the row once the update payload of a decision is written to it, the tier
\* being the one read for the amount: undefined fields are not sent
updateData(row, body, caller, amount) ==
    LET tier == CHOOSE t \in TiersFor(amount) : TRUE
        base == [row EXCEPT !.status = body.status,
                            !.processed_by = caller,
                            !.processed_at = now]
    IN  IF body.status = "rejected"
        THEN [base EXCEPT !.rejection_reason = body.rejection_reason]
        ELSE IF monthsMatch(tier.repayment_info)
        THEN [base EXCEPT !.due_date = toISOString(
                 addMonths(Today, monthsToAdd(tier.repayment_info)))]
        ELSE base

ProcessLoanRequestOn(caller, body, fails) ==
    LET auth == AdminCheck(caller, fails, "Admin user not authenticated")
        loanRequest == loan_requests[body.loanId]
        updated == updateData(loanRequest, body, caller, loanRequest.amount)
        \* a rejection never reads loan_tiers
        skipped == IF body.status = "rejected" THEN {"loan_tiers.repayment_info"}
                   ELSE {}
        Done(resp, upto) ==
            Reply("process-loan-request", caller, body,
                  (fails \cap UpTo(ProcessLoanCalls, upto)) \ skipped, resp)
    IN
    /\ UNCHANGED <<profiles, transactions, payment_proofs, notifications, bucket>>
    /\ IF auth.code # 0
       THEN Done(auth, AuthCall(caller)) /\ UNCHANGED loan_requests
       ELSE IF \/ body.loanId = NoId \/ body.status = NoText
               \/ body.status \notin {"approved", "rejected"}
       THEN /\ Done(Response(400, "Missing or invalid required fields."), "profiles.role")
            /\ UNCHANGED loan_requests
       ELSE IF RejectionReasonMissing(body)
       THEN /\ Done(Response(400, "Rejection reason is required."), "profiles.role")
            /\ UNCHANGED loan_requests
       ELSE IF "loan_requests.select" \in fails
               \/ body.loanId \notin DOMAIN loan_requests
       THEN /\ Done(Response(500, "Loan request not found."), "loan_requests.select")
            /\ UNCHANGED loan_requests
       ELSE IF AlreadyProcessed(loanRequest)
       THEN /\ Done(Response(500, "This loan request has already been processed."),
                    "loan_requests.select")
            /\ UNCHANGED loan_requests
       ELSE IF /\ body.status = "approved"
               /\ \/ "loan_tiers.repayment_info" \in fails
                  \/ TiersFor(loanRequest.amount) = {}
       THEN /\ Done(Response(500, "Could not find loan tier"), "loan_tiers.repayment_info")
            /\ UNCHANGED loan_requests
       ELSE IF "loan_requests.update" \in fails
       THEN /\ Done(Response(500, "store error"), "loan_requests.update")
            /\ UNCHANGED loan_requests
       ELSE /\ Done(Response(200, "Loan request successfully " \o body.status \o "."),
                    "loan_requests.update")
            /\ loan_requests' = [loan_requests EXCEPT ![body.loanId] = updated]

ProcessLoanRequest ==
    /\ now <= MaxOps
    /\ \/ \E body \in ProcessLoanBodies, fails \in ProcessLoanFailSets :
            ProcessLoanRequestOn(Admin, body, fails)
       \/ \E caller \in Callers \ {Admin}, fails \in RoleFailSets :
            ProcessLoanRequestOn(caller, ProcessLoanBody(1, "approved", NoText), fails)

-----------------------------------------------------------------------------
(* admin-disburse-loan *)

DisburseCalls ==
    <<"profiles.role", "loan_requests.select", "loan_tiers.fine", "rpc.increment",
      "transactions.personal", "transactions.public", "loan_requests.update",
      "notifications.insert">>

DisburseFailSets == FailSets(DisburseCalls)

Notification(user_id, title, link) ==
    [user_id |-> user_id, title |-> title, link |-> link]

\* faulty variant: an in-process loan may be disbursed again
NotApproved_Lax(loanRequest) == loanRequest.status \notin {"approved", "in-process"}

\* the loan is not ready for disbursement
NotApproved(loanRequest) == loanRequest.status # "approved"

\* faulty variant: the fine is not added to what the borrower owes
totalAmountToAdd_NoFine(loanRequest, loanTier) == loanRequest.amount

totalAmountToAdd(loanRequest, loanTier) == loanRequest.amount + loanTier.fine

AdminDisburseLoanOn(caller, body, fails) ==
    LET auth == AdminCheck(caller, fails, "Admin user not authenticated")
        loanRequest == loan_requests[body.loanId]
        loanTier == CHOOSE t \in TiersFor(loanRequest.amount) : TRUE
        personal == [user_id |-> loanRequest.user_id, type |-> "withdrawal",
                     amount |-> loanRequest.amount, created_at |-> toISOString(Today)]
        public == [user_id |-> NoText, type |-> "withdrawal",
                   amount |-> loanRequest.amount, created_at |-> toISOString(Today)]
        \* none of the results of the increment and the two inserts is inspected
        afterPersonal == IF "transactions.personal" \in fails THEN transactions
                         ELSE Append(transactions, personal)
        afterPublic == IF "transactions.public" \in fails THEN afterPersonal
                       ELSE Append(afterPersonal, public)
        Done(resp, upto) ==
            Reply("admin-disburse-loan", caller, body, fails \cap UpTo(DisburseCalls, upto), resp)
    IN
    /\ UNCHANGED <<payment_proofs, bucket>>
    /\ IF auth.code # 0
       THEN Done(auth, AuthCall(caller))
            /\ UNCHANGED <<profiles, loan_requests, transactions, notifications>>
       ELSE IF body.loanId = NoId
       THEN /\ Done(Response(400, "Missing loanId."), "profiles.role")
            /\ UNCHANGED <<profiles, loan_requests, transactions, notifications>>
       ELSE IF "loan_requests.select" \in fails
               \/ body.loanId \notin DOMAIN loan_requests
       THEN /\ Done(Response(500, "Loan request not found."), "loan_requests.select")
            /\ UNCHANGED <<profiles, loan_requests, transactions, notifications>>
       ELSE IF NotApproved(loanRequest)
       THEN /\ Done(Response(500,
                   "This loan is not in an approved state ready for disbursement."),
                    "loan_requests.select")
            /\ UNCHANGED <<profiles, loan_requests, transactions, notifications>>
       ELSE IF "loan_tiers.fine" \in fails \/ TiersFor(loanRequest.amount) = {}
       THEN /\ Done(Response(500, "Could not find loan tier"), "loan_tiers.fine")
            /\ UNCHANGED <<profiles, loan_requests, transactions, notifications>>
       ELSE
         /\ profiles' = IF "rpc.increment" \in fails THEN profiles
                        ELSE increment_user_outstanding_amount(
                                 profiles, loanRequest.user_id,
                                 totalAmountToAdd(loanRequest, loanTier))
         /\ transactions' = afterPublic
         /\ IF "loan_requests.update" \in fails
            THEN /\ Done(Response(500, "store error"), "loan_requests.update")
                 /\ UNCHANGED <<loan_requests, notifications>>
            ELSE /\ Done(Response(200, "Loan successfully disbursed."),
                         "notifications.insert")
                 /\ loan_requests' =
                        [loan_requests EXCEPT ![body.loanId].status = "in-process"]
                 /\ notifications' =
                        IF "notifications.insert" \in fails THEN notifications
                        ELSE Append(notifications,
                               Notification(loanRequest.user_id, "Loan Disbursed",
                                            "/loan-request"))

AdminDisburseLoan ==
    /\ now <= MaxOps
    /\ Len(transactions) + 2 <= MaxTx
    /\ \/ \E id \in 0..MaxLoans, fails \in DisburseFailSets :
            AdminDisburseLoanOn(Admin, [loanId |-> id], fails)
       \/ \E caller \in Callers \ {Admin}, fails \in RoleFailSets :
            AdminDisburseLoanOn(caller, [loanId |-> 1], fails)

-----------------------------------------------------------------------------
(* admin-close-loan *)

CloseLoanCalls == <<"profiles.role", "loan_requests.update">>

CloseLoanFailSets == FailSets(CloseLoanCalls)

AdminCloseLoanOn(caller, body, fails) ==
    LET auth == AdminCheck(caller, fails, "User not authenticated")
        Done(resp, upto) ==
            Reply("admin-close-loan", caller, body, fails \cap UpTo(CloseLoanCalls, upto), resp)
    IN
    /\ UNCHANGED <<profiles, transactions, payment_proofs, notifications, bucket>>
    /\ IF auth.code # 0
       THEN Done(auth, AuthCall(caller)) /\ UNCHANGED loan_requests
       ELSE IF body.loanId = NoId
       THEN Done(Response(400, "Missing loanId."), "profiles.role") /\ UNCHANGED loan_requests
       ELSE IF "loan_requests.update" \in fails
       THEN Done(Response(500, "store error"), "loan_requests.update") /\ UNCHANGED loan_requests
       ELSE /\ Done(Response(200, "Loan marked as closed successfully"),
                    "loan_requests.update")
            \* update ... where id = loanId: every matching row, whatever its status
            /\ loan_requests' =
                   [i \in DOMAIN loan_requests |->
                      IF i = body.loanId
                      THEN [loan_requests[i] EXCEPT !.status = "closed",
                                                    !.processed_at = now]
                      ELSE loan_requests[i]]

AdminCloseLoan ==
    /\ now <= MaxOps
    /\ \/ \E id \in 0..MaxLoans, fails \in CloseLoanFailSets :
            AdminCloseLoanOn(Admin, [loanId |-> id], fails)
       \/ \E caller \in Callers \ {Admin}, fails \in RoleFailSets :
            AdminCloseLoanOn(caller, [loanId |-> 1], fails)

-----------------------------------------------------------------------------
(* The transaction routine behind proof approval and bulk backfill. *)

\* the fixed p_amount of an approved proof, and of a backfilled month
ProofContribution == 500
BulkContribution == 500

\* rpc admin_create_transaction(p_user_id, p_type, p_amount, ...,
\* p_transaction_date): the row it adds to transactions
admin_create_transaction(txs, p_user_id, p_type, p_amount, p_transaction_date) ==
    Append(txs, [user_id |-> p_user_id, type |-> p_type, amount |-> p_amount,
                 created_at |-> p_transaction_date])

-----------------------------------------------------------------------------
(* submit-payment-proof *)

SubmitProofCalls ==
    <<"profiles.names", "storage.upload", "payment_proofs.insert", "storage.remove">>

SubmitProofFailSets == FailSets(SubmitProofCalls)

\* the form: a proof file or none, and year and month as the form's numbers
\* (0 stands for a missing field)
SubmitProofForm(proof, year, month) == [proof |-> proof, year |-> year, month |-> month]

SubmitProofForms ==
    { SubmitProofForm(TRUE, 2024, 11), SubmitProofForm(TRUE, 2024, 12),
      SubmitProofForm(FALSE, 2024, 11), SubmitProofForm(TRUE, 0, 11),
      SubmitProofForm(TRUE, 2024, 0) }

\* `${user.id}-${Date.now()}.${fileExt}`
FilePath(caller, at) == [user |-> caller, at |-> at]

\* faulty variant: the file stays in the bucket
remove_Nothing(files, filePath) == files

\* storage.from('payment-proofs').remove([filePath])
remove(files, filePath) == files \ {filePath}

\* the payment_proofs row of a submission
SubmittedProof(caller, form, at) ==
    [user_id |-> caller,
     contribution_month |-> toISOString(NewDate(form.year, form.month - 1, 1)),
     file_path |-> FilePath(caller, at), status |-> "pending", notes |-> NoText,
     processed_by |-> NoText, processed_at |-> 0]

SubmitPaymentProofOn(caller, form, fails) ==
    LET filePath == FilePath(caller, now)
        row == SubmittedProof(caller, form, now)
        Done(resp, upto) ==
            Reply("submit-payment-proof", caller, form,
                  fails \cap UpTo(SubmitProofCalls, upto), resp)
    IN
    /\ UNCHANGED <<profiles, loan_requests, transactions, notifications>>
    /\ IF caller = NoHeader
       THEN /\ Done(Response(500, "Authorization header missing"), "none")
            /\ UNCHANGED <<payment_proofs, bucket>>
       ELSE IF ~Authenticated(caller)
       THEN /\ Done(Response(500, "User not authenticated"), "none")
            /\ UNCHANGED <<payment_proofs, bucket>>
       ELSE IF "profiles.names" \in fails
       THEN /\ Done(Response(500, "Could not fetch user profile"), "profiles.names")
            /\ UNCHANGED <<payment_proofs, bucket>>
       ELSE IF ~form.proof \/ form.year = 0 \/ form.month = 0
       THEN /\ Done(Response(400, "Missing required fields: proof, year, or month."),
                    "profiles.names")
            /\ UNCHANGED <<payment_proofs, bucket>>
       ELSE IF "storage.upload" \in fails
       THEN /\ Done(Response(500, "Storage upload failed"), "storage.upload")
            /\ UNCHANGED <<payment_proofs, bucket>>
       ELSE IF "payment_proofs.insert" \in fails
       THEN \* the uploaded file is removed again; the removal's result is not read
            /\ Done(Response(500, "Database insert failed"), "storage.remove")
            /\ bucket' = IF "storage.remove" \in fails
                         THEN bucket \cup {filePath}
                         ELSE remove(bucket \cup {filePath}, filePath)
            /\ UNCHANGED payment_proofs
       ELSE /\ Done(Response(200, "Proof submitted successfully"),
                    "payment_proofs.insert")
            /\ bucket' = bucket \cup {filePath}
            /\ payment_proofs' = payment_proofs @@ (NewId(payment_proofs) :> row)

SubmitPaymentProof ==
    /\ now <= MaxOps
    /\ Cardinality(DOMAIN payment_proofs) < MaxProofs
    /\ \/ \E caller \in Members, form \in SubmitProofForms,
             fails \in SubmitProofFailSets :
            SubmitPaymentProofOn(caller, form, fails)
       \/ \E caller \in {NoHeader, BadToken} :
            SubmitPaymentProofOn(caller, SubmitProofForm(TRUE, 2024, 11), {})

-----------------------------------------------------------------------------
(* process-payment-proof *)

ProcessProofCalls ==
    <<"profiles.role", "payment_proofs.select", "rpc.admin_create_transaction",
      "payment_proofs.update", "notifications.insert", "storage.remove">>

ProcessProofFailSets == FailSets(ProcessProofCalls)

ProcessProofBody(proofId, status, notes) ==
    [proofId |-> proofId, status |-> status, notes |-> notes]

\* an approval, a rejection with and without notes for every proof id, and
\* bodies with a field missing or a status that is no decision
ProcessProofBodies ==
    { ProcessProofBody(id, "approved", NoText) : id \in 1..MaxProofs }
    \cup { ProcessProofBody(id, "rejected", n) :
             id \in 1..MaxProofs, n \in {NoText, "unreadable"} }
    \cup { ProcessProofBody(NoId, "approved", NoText),
           ProcessProofBody(1, NoText, NoText),
           ProcessProofBody(1, "pending", "unreadable") }

\* faulty variant: notes are never asked for
RejectionNotesMissing_Never(body) == FALSE

\* a rejection that carries no notes
RejectionNotesMissing(body) == body.status = "rejected" /\ body.notes = NoText

\* faulty variant: a rejected proof may be decided again
ProofAlreadyProcessed_ApprovedOnly(proof) == proof.status = "approved"

\* the proof is no longer awaiting a decision
ProofAlreadyProcessed(proof) == proof.status # "pending"

\* faulty variant: the deposit is dated to the day of the approval
ApprovalDeposit_Today(txs, proof) ==
    admin_create_transaction(txs, proof.user_id, "deposit", ProofContribution,
                             toISOString(Today))

\* the deposit an approval books for the proof
ApprovalDeposit(txs, proof) ==
    admin_create_transaction(txs, proof.user_id, "deposit", ProofContribution,
                             proof.contribution_month)

ProcessPaymentProofOn(caller, body, fails) ==
    LET auth == AdminCheck(caller, fails, "Admin user not authenticated")
        proof == payment_proofs[body.proofId]
        \* a rejection never calls the transaction routine
        skipped == IF body.status = "rejected"
                   THEN {"rpc.admin_create_transaction"} ELSE {}
        notification ==
            Notification(proof.user_id,
                         IF body.status = "approved" THEN "Contribution Approved"
                         ELSE "Contribution Rejected",
                         "/contribute")
        Done(resp, upto) ==
            Reply("process-payment-proof", caller, body,
                  (fails \cap UpTo(ProcessProofCalls, upto)) \ skipped, resp)
    IN
    /\ UNCHANGED <<profiles, loan_requests>>
    /\ IF auth.code # 0
       THEN /\ Done(auth, AuthCall(caller))
            /\ UNCHANGED <<transactions, payment_proofs, notifications, bucket>>
       ELSE IF \/ body.proofId = NoId \/ body.status = NoText
               \/ body.status \notin {"approved", "rejected"}
       THEN /\ Done(Response(400, "Missing or invalid required fields."),
                    "profiles.role")
            /\ UNCHANGED <<transactions, payment_proofs, notifications, bucket>>
       ELSE IF RejectionNotesMissing(body)
       THEN /\ Done(Response(400, "Rejection notes are required."), "profiles.role")
            /\ UNCHANGED <<transactions, payment_proofs, notifications, bucket>>
       ELSE IF "payment_proofs.select" \in fails
               \/ body.proofId \notin DOMAIN payment_proofs
       THEN /\ Done(Response(500, "Payment proof not found."), "payment_proofs.select")
            /\ UNCHANGED <<transactions, payment_proofs, notifications, bucket>>
       ELSE IF ProofAlreadyProcessed(proof)
       THEN /\ Done(Response(500, "This proof has already been processed."),
                    "payment_proofs.select")
            /\ UNCHANGED <<transactions, payment_proofs, notifications, bucket>>
       ELSE IF body.status = "approved" /\ "rpc.admin_create_transaction" \in fails
       THEN /\ Done(Response(500, "store error"), "rpc.admin_create_transaction")
            /\ UNCHANGED <<transactions, payment_proofs, notifications, bucket>>
       ELSE
         /\ transactions' =
               IF body.status = "approved"
               THEN ApprovalDeposit(transactions, proof)
               ELSE transactions
         /\ IF "payment_proofs.update" \in fails
            THEN /\ Done(Response(500, "store error"), "payment_proofs.update")
                 /\ UNCHANGED <<payment_proofs, notifications, bucket>>
            ELSE \* a failed notification insert or file removal is only logged
                 /\ Done(Response(200, "Proof successfully " \o body.status \o "."),
                         "storage.remove")
                 /\ payment_proofs' =
                       [payment_proofs EXCEPT ![body.proofId] =
                          [@ EXCEPT !.status = body.status, !.notes = body.notes,
                                    !.processed_by = caller, !.processed_at = now]]
                 /\ notifications' =
                       IF "notifications.insert" \in fails THEN notifications
                       ELSE Append(notifications, notification)
                 /\ bucket' = IF "storage.remove" \in fails THEN bucket
                              ELSE bucket \ {proof.file_path}

ProcessPaymentProof ==
    /\ now <= MaxOps
    /\ Len(transactions) + 1 <= MaxTx
    /\ \/ \E body \in ProcessProofBodies, fails \in ProcessProofFailSets :
            ProcessPaymentProofOn(Admin, body, fails)
       \/ \E caller \in Callers \ {Admin}, fails \in RoleFailSets :
            ProcessPaymentProofOn(caller, ProcessProofBody(1, "approved", NoText),
                                  fails)

-----------------------------------------------------------------------------
(* admin-bulk-add-contributions *)

\* a field the JSON body does not carry
Undefined == 0 - 1

\* the k-th call of the transaction routine within one request
CreateTransactionCall(k) == "rpc.admin_create_transaction#" \o ToString(k)

BulkAddFailSets ==
    { f \in SUBSET ({"profiles.role", "profiles.names"}
                    \cup {CreateTransactionCall(k) : k \in 1..MaxTx}) :
        Cardinality(f) <= MaxFails }

BulkAddBody(userId, startYear, startMonth, endYear, endMonth) ==
    [userId |-> userId, startYear |-> startYear, startMonth |-> startMonth,
     endYear |-> endYear, endMonth |-> endMonth]

BulkStartMonths == {10, 11}
BulkEndYears == {2024, 2025}
BulkEndMonths == {0, 11, 12}

\* ranges that start late in 2024 and end before, in or after that month for one
\* member, one range for the other member and for an id without a profile, and
\* a body lacking a field
BulkAddBodies ==
    { BulkAddBody("m1", 2024, sm, ey, em) :
        sm \in BulkStartMonths, ey \in BulkEndYears, em \in BulkEndMonths }
    \cup { BulkAddBody("m2", 2024, 11, 2025, 0),
           BulkAddBody("nobody", 2024, 11, 2025, 0),
           BulkAddBody("m1", 2024, 11, 2025, Undefined) }

\* the while loop from currentDate on: k - 1 calls have been made,
\* contributionsAdded of them counted; the result is the log, the count, and
\* the call that threw (0 when the loop ran to its end)
\* faulty variant: the end month is left out
LoopContinues_Strict(currentDate, endDate) ==
    DateLeq(currentDate, endDate) /\ currentDate # endDate

\* the loop's condition
LoopContinues(currentDate, endDate) == DateLeq(currentDate, endDate)

MonthNames ==
    <<"January", "February", "March", "April", "May", "June", "July",
      "August", "September", "October", "November", "December">>

\* date-fns format(date, 'MMMM yyyy')
monthName(date) == MonthNames[date.m + 1] \o " " \o ToString(date.y)

\* faulty variant: the months posted before the failure are taken back
Thrown_RolledBack(txs, contributionsAdded, k, currentDate) ==
    [transactions |-> SubSeq(txs, 1, Len(txs) - contributionsAdded),
     contributionsAdded |-> contributionsAdded, threw |-> k, at |-> currentDate]

\* throw new Error(...) in the loop: what was posted so far stays
Thrown(txs, contributionsAdded, k, currentDate) ==
    [transactions |-> txs, contributionsAdded |-> contributionsAdded,
     threw |-> k, at |-> currentDate]

RECURSIVE BulkLoop(_, _, _, _, _, _, _)
BulkLoop(userId, currentDate, endDate, txs, contributionsAdded, k, fails) ==
    IF ~LoopContinues(currentDate, endDate)
    THEN [transactions |-> txs, contributionsAdded |-> contributionsAdded,
          threw |-> 0, at |-> currentDate]
    ELSE IF CreateTransactionCall(k) \in fails
    THEN Thrown(txs, contributionsAdded, k, currentDate)
    ELSE BulkLoop(userId, addMonths(currentDate, 1), endDate,
                  admin_create_transaction(txs, userId, "deposit",
                      BulkContribution, toISOString(currentDate)),
                  contributionsAdded + 1, k + 1, fails)

\* the months from the start to the end of the body's range, both included
MonthsInRange(body) ==
    LET n == (body.endYear * 12 + body.endMonth)
             - (body.startYear * 12 + body.startMonth) + 1
    IN  IF n < 0 THEN 0 ELSE n

AdminBulkAddContributionsOn(caller, body, fails) ==
    LET auth == AdminCheck(caller, fails, "Admin user not authenticated")
        startDate == NewDate(body.startYear, body.startMonth, 1)
        endDate == NewDate(body.endYear, body.endMonth, 1)
        loop == BulkLoop(body.userId, startDate, endDate, transactions, 0, 1, fails)
        made == IF loop.threw = 0 THEN loop.contributionsAdded ELSE loop.threw
        Done(resp, reached) ==
            Reply("admin-bulk-add-contributions", caller, body, fails \cap reached, resp)
    IN
    /\ UNCHANGED <<profiles, loan_requests, payment_proofs, notifications, bucket>>
    /\ IF auth.code # 0
       THEN /\ Done(auth, IF Authenticated(caller) THEN {"profiles.role"} ELSE {})
            /\ UNCHANGED transactions
       ELSE IF Undefined \in {body.startYear, body.startMonth, body.endYear,
                              body.endMonth}
       THEN /\ Done(Response(400, "Missing required fields."), {"profiles.role"})
            /\ UNCHANGED transactions
       ELSE IF "profiles.names" \in fails \/ body.userId \notin DOMAIN profiles
       THEN /\ Done(Response(500, "Could not fetch user profile"),
                    {"profiles.role", "profiles.names"})
            /\ UNCHANGED transactions
       ELSE /\ transactions' = loop.transactions
            /\ Done(IF loop.threw # 0
                    THEN Response(500, "Failed to create transaction for "
                                       \o monthName(loop.at))
                    ELSE Response(200, "Successfully added "
                                       \o ToString(loop.contributionsAdded)
                                       \o " contributions."),
                    {"profiles.role", "profiles.names"}
                    \cup {CreateTransactionCall(k) : k \in 1..made})

AdminBulkAddContributions ==
    /\ now <= MaxOps
    /\ \/ \E body \in BulkAddBodies, fails \in BulkAddFailSets :
            /\ Len(transactions) + MonthsInRange(body) <= MaxTx
            /\ AdminBulkAddContributionsOn(Admin, body, fails)
       \/ \E caller \in Callers \ {Admin}, fails \in RoleFailSets :
            AdminBulkAddContributionsOn(caller,
                BulkAddBody("m1", 2024, 11, 2025, 0), fails)

-----------------------------------------------------------------------------
(* admin-delete-loan-request *)

DeleteLoanCalls == <<"profiles.role", "loan_requests.delete">>

DeleteLoanFailSets == FailSets(DeleteLoanCalls)

\* the rows of table t but the one with the given id (delete ... where id = ...)
DeleteRow(t, id) == [i \in DOMAIN t \ {id} |-> t[i]]

AdminDeleteLoanRequestOn(caller, body, fails) ==
    LET auth == AdminCheck(caller, fails, "Admin user not authenticated")
        Done(resp, upto) ==
            Reply("admin-delete-loan-request", caller, body,
                  fails \cap UpTo(DeleteLoanCalls, upto), resp)
    IN
    /\ UNCHANGED <<profiles, transactions, payment_proofs, notifications, bucket>>
    /\ IF auth.code # 0
       THEN Done(auth, AuthCall(caller)) /\ UNCHANGED loan_requests
       ELSE IF body.loanRequestId = NoId
       THEN /\ Done(Response(400, "Missing loanRequestId."), "profiles.role")
            /\ UNCHANGED loan_requests
       ELSE IF "loan_requests.delete" \in fails
       THEN /\ Done(Response(500, "store error"), "loan_requests.delete")
            /\ UNCHANGED loan_requests
       ELSE /\ Done(Response(200, "Loan request deleted successfully"),
                    "loan_requests.delete")
            /\ loan_requests' = DeleteRow(loan_requests, body.loanRequestId)

AdminDeleteLoanRequest ==
    /\ now <= MaxOps
    /\ \/ \E id \in 0..MaxLoans, fails \in DeleteLoanFailSets :
            AdminDeleteLoanRequestOn(Admin, [loanRequestId |-> id], fails)
       \/ \E caller \in Callers \ {Admin}, fails \in RoleFailSets :
            AdminDeleteLoanRequestOn(caller, [loanRequestId |-> 1], fails)

-----------------------------------------------------------------------------
(* admin-delete-user *)

DeleteUserCalls == <<"profiles.role", "auth.deleteUser">>

DeleteUserFailSets == FailSets(DeleteUserCalls)

\* auth.admin.deleteUser(userId): the account's profile goes with the account
deleteUser(p, userId) == [u \in DOMAIN p \ {userId} |-> p[u]]

AdminDeleteUserOn(caller, body, fails) ==
    LET auth == AdminCheck(caller, fails, "Admin user not authenticated")
        Done(resp, upto) ==
            Reply("admin-delete-user", caller, body,
                  fails \cap UpTo(DeleteUserCalls, upto), resp)
    IN
    /\ UNCHANGED <<loan_requests, transactions, payment_proofs, notifications,
                   bucket>>
    /\ IF auth.code # 0
       THEN Done(auth, AuthCall(caller)) /\ UNCHANGED profiles
       ELSE IF body.userId = NoText
       THEN Done(Response(400, "Missing userId."), "profiles.role")
            /\ UNCHANGED profiles
       ELSE IF caller = body.userId
       THEN Done(Response(403, "Admins cannot delete their own account."),
                 "profiles.role")
            /\ UNCHANGED profiles
       ELSE IF "auth.deleteUser" \in fails \/ body.userId \notin DOMAIN profiles
       THEN Done(Response(500, "User not found"), "auth.deleteUser")
            /\ UNCHANGED profiles
       ELSE /\ Done(Response(200, "User deleted successfully"), "auth.deleteUser")
            /\ profiles' = deleteUser(profiles, body.userId)

AdminDeleteUser ==
    /\ now <= MaxOps
    /\ \/ \E userId \in {NoText, Admin, "m2", "nobody"}, fails \in DeleteUserFailSets :
            AdminDeleteUserOn(Admin, [userId |-> userId], fails)
       \/ \E caller \in Callers \ {Admin}, fails \in RoleFailSets :
            AdminDeleteUserOn(caller, [userId |-> "m2"], fails)

-----------------------------------------------------------------------------
(* admin-create-user *)

CreateUserCalls == <<"profiles.role", "auth.createUser">>

CreateUserFailSets == FailSets(CreateUserCalls)

\* the id auth.admin.createUser gives the account of the one e-mail address
\* the requests carry
NewUserId == "n1"

CreateUserBody(email, role) == [email |-> email, role |-> role]

\* auth.admin.createUser and the trigger that gives the account its profile
createUser(p, role) == p @@ (NewUserId :> [role |-> role, outstanding_amount |-> 0])

AdminCreateUserOn(caller, body, fails) ==
    LET auth == AdminCheck(caller, fails, "Admin user not authenticated")
        Done(resp, upto) ==
            Reply("admin-create-user", caller, body,
                  fails \cap UpTo(CreateUserCalls, upto), resp)
    IN
    /\ UNCHANGED <<loan_requests, transactions, payment_proofs, notifications,
                   bucket>>
    /\ IF auth.code # 0
       THEN Done(auth, AuthCall(caller)) /\ UNCHANGED profiles
       ELSE IF body.email = NoText \/ body.role = NoText
       THEN Done(Response(400, "Missing required fields."), "profiles.role")
            /\ UNCHANGED profiles
       ELSE IF "auth.createUser" \in fails \/ NewUserId \in DOMAIN profiles
       THEN Done(Response(500, "A user with this email address has already been registered"),
                 "auth.createUser")
            /\ UNCHANGED profiles
       ELSE /\ Done(Response(200, "user"), "auth.createUser")
            /\ profiles' = createUser(profiles, body.role)

AdminCreateUser ==
    /\ now <= MaxOps
    /\ \/ \E body \in {CreateUserBody("n1@example.org", "user"),
                       CreateUserBody("n1@example.org", "admin"),
                       CreateUserBody(NoText, "user")},
             fails \in CreateUserFailSets :
            AdminCreateUserOn(Admin, body, fails)
       \/ \E caller \in Callers \ {Admin}, fails \in RoleFailSets :
            AdminCreateUserOn(caller, CreateUserBody("n1@example.org", "admin"), fails)

-----------------------------------------------------------------------------
(* admin-bulk-create-users *)

\* an element of the users array: null, or an object with the two names
\* (NoText for a name that is missing or empty)
NullUser == [isNull |-> TRUE, firstName |-> NoText, lastName |-> NoText]
NamedUser(firstName, lastName) ==
    [isNull |-> FALSE, firstName |-> firstName, lastName |-> lastName]

UserEntries ==
    { NullUser, NamedUser("Asha", "Rao"), NamedUser("Bina", "Das"),
      NamedUser("Asha", NoText), NamedUser(NoText, "Das") }

\* the bodies: a users array of up to MaxUsers elements, or no array at all
BulkCreateBodies ==
    { [users |-> u, isArray |-> TRUE] :
        u \in UNION { [1..n -> UserEntries] : n \in 0..MaxUsers } }
    \cup { [users |-> << >>, isArray |-> FALSE] }

\* the account creation for the i-th element of the array
CreateUserCall(i) == "auth.createUser#" \o ToString(i)

\* `${firstName} ${lastName}`
fullName(user) == user.firstName \o " " \o user.lastName

\* the id of an account with a generated e-mail address
GeneratedUserId(p) == "u" \o ToString(Cardinality(DOMAIN p))

RECURSIVE BulkCreateLoop(_, _, _, _, _, _)
\* the loop from the i-th element on; threw is the element whose
\* destructuring threw outside the inner try (0 when none did)
BulkCreateLoop(users, i, p, successes, failures, fails) ==
    IF i > Len(users)
    THEN [profiles |-> p, successes |-> successes, failures |-> failures,
          threw |-> 0]
    ELSE IF users[i].isNull
    THEN [profiles |-> p, successes |-> successes, failures |-> failures,
          threw |-> i]
    ELSE IF users[i].firstName = NoText \/ users[i].lastName = NoText
    THEN BulkCreateLoop(users, i + 1, p, successes,
                        Append(failures,
                               [name |-> fullName(users[i]),
                                error |-> "Each user must have a firstName and lastName."]),
                        fails)
    ELSE IF CreateUserCall(i) \in fails
    THEN BulkCreateLoop(users, i + 1, p, successes,
                        Append(failures, [name |-> fullName(users[i]),
                                          error |-> "store error"]),
                        fails)
    ELSE BulkCreateLoop(users, i + 1,
                        p @@ (GeneratedUserId(p) :>
                                [role |-> "user", outstanding_amount |-> 0]),
                        Append(successes, [name |-> fullName(users[i])]),
                        failures, fails)

\* the account creations the loop reached
CreateUserCallsMade(users, loop) ==
    {CreateUserCall(i) : i \in
       {j \in 1..Len(users) :
          /\ loop.threw = 0 \/ j < loop.threw
          /\ ~users[j].isNull
          /\ users[j].firstName # NoText /\ users[j].lastName # NoText}}

NoResults == [successes |-> << >>, failures |-> << >>]

AdminBulkCreateUsersOn(caller, body, fails) ==
    LET auth == AdminCheck(caller, fails, "Admin user not authenticated")
        loop == BulkCreateLoop(body.users, 1, profiles, << >>, << >>, fails)
        Done(resp, reached, results) ==
            /\ last' = [op |-> "admin-bulk-create-users", caller |-> caller,
                        req |-> body, failed |-> fails \cap reached,
                        code |-> resp.code, msg |-> resp.msg,
                        results |-> results]
            /\ now' = now + 1
            /\ UNCHANGED <<loanForm, inflight>>
    IN
    /\ UNCHANGED <<loan_requests, transactions, payment_proofs, notifications,
                   bucket>>
    /\ IF auth.code # 0
       THEN /\ Done(auth, IF Authenticated(caller) THEN {"profiles.role"} ELSE {},
                    NoResults)
            /\ UNCHANGED profiles
       ELSE IF ~body.isArray
       THEN /\ Done(Response(400, "Request body must contain a \"users\" array."),
                    {"profiles.role"}, NoResults)
            /\ UNCHANGED profiles
       ELSE /\ profiles' = loop.profiles
            /\ IF loop.threw # 0
               THEN Done(Response(500, "Cannot destructure property 'firstName' of 'user' as it is null."),
                         {"profiles.role"} \cup CreateUserCallsMade(body.users, loop),
                         NoResults)
               ELSE Done(Response(200, "results"),
                         {"profiles.role"} \cup CreateUserCallsMade(body.users, loop),
                         [successes |-> loop.successes, failures |-> loop.failures])

AdminBulkCreateUsers ==
    /\ now <= MaxOps
    /\ \/ \E body \in BulkCreateBodies :
            \E fails \in { f \in SUBSET ({"profiles.role"}
                                \cup {CreateUserCall(i) : i \in 1..Len(body.users)}) :
                            Cardinality(f) <= MaxFails } :
               AdminBulkCreateUsersOn(Admin, body, fails)
       \/ \E caller \in Callers \ {Admin}, fails \in RoleFailSets :
            AdminBulkCreateUsersOn(caller,
                [users |-> <<NamedUser("Asha", "Rao")>>, isArray |-> TRUE], fails)

-----------------------------------------------------------------------------
(* admin-delete-payment-proof *)

DeleteProofCalls ==
    <<"profiles.role", "payment_proofs.select", "payment_proofs.delete",
      "storage.remove">>

DeleteProofFailSets == FailSets(DeleteProofCalls)

AdminDeletePaymentProofOn(caller, body, fails) ==
    LET auth == AdminCheck(caller, fails, "Admin user not authenticated")
        \* a proof that could not be fetched only draws a warning
        found == /\ "payment_proofs.select" \notin fails
                 /\ body.proofId \in DOMAIN payment_proofs
        Done(resp, upto) ==
            Reply("admin-delete-payment-proof", caller, body,
                  (fails \cap UpTo(DeleteProofCalls, upto))
                     \ (IF found THEN {} ELSE {"storage.remove"}), resp)
    IN
    /\ UNCHANGED <<profiles, loan_requests, transactions, notifications>>
    /\ IF auth.code # 0
       THEN Done(auth, AuthCall(caller)) /\ UNCHANGED <<payment_proofs, bucket>>
       ELSE IF body.proofId = NoId
       THEN /\ Done(Response(400, "Missing proofId."), "profiles.role")
            /\ UNCHANGED <<payment_proofs, bucket>>
       ELSE IF "payment_proofs.delete" \in fails
       THEN /\ Done(Response(500, "store error"), "payment_proofs.delete")
            /\ UNCHANGED <<payment_proofs, bucket>>
       ELSE /\ Done(Response(200, "Payment proof deleted successfully"),
                    "storage.remove")
            /\ payment_proofs' = DeleteRow(payment_proofs, body.proofId)
            /\ bucket' = IF found /\ "storage.remove" \notin fails
                         THEN bucket \ {payment_proofs[body.proofId].file_path}
                         ELSE bucket

AdminDeletePaymentProof ==
    /\ now <= MaxOps
    /\ \/ \E id \in 0..MaxProofs, fails \in DeleteProofFailSets :
            AdminDeletePaymentProofOn(Admin, [proofId |-> id], fails)
       \/ \E caller \in Callers \ {Admin}, fails \in RoleFailSets :
            AdminDeletePaymentProofOn(caller, [proofId |-> 1], fails)

-----------------------------------------------------------------------------
(* The member's loan request page (LoanRequestPage): the form's state and   *)
(* its submit handler, which inserts into loan_requests directly.           *)

\* differenceInMonths(new Date(), membership_start_date) of each profile
TenureInMonths == [u \in UserIds |-> IF u = "m1" THEN 24 ELSE IF u = "m2" THEN 6 ELSE 0]

\* the tiers the member's tenure makes eligible
eligibleLoans(user) ==
    {tier \in LoanTiers : TenureInMonths[user] >= tier.eligibility_months}

\* the values of the amount select
eligibleLoanOptions(user) == {tier.amount : tier \in eligibleLoans(user)}

\* faulty variant: the member is offered as a guarantor of the own loan
guarantors_WithSelf(user) == DOMAIN profiles

\* every profile but the member's own
guarantors(user) == {u \in DOMAIN profiles : u # user}

\* the values of the second guarantor's select
guarantor2Options(user, guarantorId) ==
    IF guarantorId = NoText THEN guarantors(user)
    ELSE {g \in guarantors(user) : g # guarantorId}

\* the amounts that take two guarantors, and none
TwoGuarantorAmount == 100000
StarterAmount == 5000

\* handleSubmit's guarantor checks: the request is refused
GuarantorsMissing(loanAmount, guarantorId, guarantor2Id) ==
    IF loanAmount = TwoGuarantorAmount
    THEN guarantorId = NoText \/ guarantor2Id = NoText \/ guarantorId = guarantor2Id
    ELSE loanAmount # StarterAmount /\ guarantorId = NoText

\* the page is mounted for a logged-in member: every field starts empty
OpenLoanRequestPage ==
    /\ \E user \in Members \cap DOMAIN profiles :
          loanForm' = [NoForm EXCEPT !.user = user]
    /\ UNCHANGED <<tables, now, last, inflight>>

\* the amount select
SetAmount ==
    /\ loanForm.user # NoText
    /\ \E amount \in eligibleLoanOptions(loanForm.user) :
          loanForm' = [loanForm EXCEPT !.amount = amount]
    /\ UNCHANGED <<tables, now, last, inflight>>

\* the first guarantor's select, rendered for an amount other than the starter's
SetGuarantorId ==
    /\ loanForm.user # NoText
    /\ loanForm.amount > 0 /\ loanForm.amount # StarterAmount
    /\ \E val \in guarantors(loanForm.user) :
          loanForm' = [loanForm EXCEPT !.guarantorId = val,
                               !.guarantor2Id = IF val = @ THEN NoText ELSE @]
    /\ UNCHANGED <<tables, now, last, inflight>>

\* the second guarantor's select, rendered for the top amount and enabled once
\* the first guarantor is chosen
SetGuarantor2Id ==
    /\ loanForm.user # NoText
    /\ loanForm.amount = TwoGuarantorAmount
    /\ loanForm.guarantorId # NoText
    /\ \E val \in guarantor2Options(loanForm.user, loanForm.guarantorId) :
          loanForm' = [loanForm EXCEPT !.guarantor2Id = val]
    /\ UNCHANGED <<tables, now, last, inflight>>

MemberCreateFailSets == FailSets(<<"loan_requests.insert">>)

\* the row handleSubmit inserts; the store fills in the other columns
SubmittedRow(user, loanAmount, guarantorId, guarantor2Id) ==
    [user_id |-> user, amount |-> loanAmount,
     guarantor_id |-> IF loanAmount # StarterAmount THEN guarantorId ELSE NoText,
     guarantor_2_id |-> IF loanAmount = TwoGuarantorAmount
                        THEN guarantor2Id ELSE NoText,
     status |-> "pending", created_at |-> toISOString(Today),
     due_date |-> NullDate, processed_by |-> NoText,
     processed_at |-> 0, rejection_reason |-> NoText]

\* handleSubmit
HandleSubmitOn(fails) ==
    LET loanAmount == loanForm.amount
        row == SubmittedRow(loanForm.user, loanAmount, loanForm.guarantorId,
                            loanForm.guarantor2Id)
        \* the page's toast; the insert is no request to an edge function
        Done(resp, failed) ==
            /\ last' = [op |-> "member-create-loan", caller |-> loanForm.user,
                        req |-> loanForm, failed |-> failed,
                        code |-> resp.code, msg |-> resp.msg]
            /\ UNCHANGED now
    IN
    /\ UNCHANGED <<profiles, transactions, payment_proofs, notifications, bucket,
                   inflight>>
    /\ IF loanForm.amount = 0
       THEN /\ Done(Response(400, "Please select a loan amount."), {})
            /\ UNCHANGED <<loan_requests, loanForm>>
       ELSE IF GuarantorsMissing(loanAmount, loanForm.guarantorId, loanForm.guarantor2Id)
       THEN /\ Done(Response(400,
                      IF loanAmount # TwoGuarantorAmount
                      THEN "A guarantor is required for this loan amount."
                      ELSE IF loanForm.guarantorId = NoText \/ loanForm.guarantor2Id = NoText
                      THEN "Two guarantors are required for this loan amount."
                      ELSE "Please select two different guarantors."), {})
            /\ UNCHANGED <<loan_requests, loanForm>>
       ELSE IF "loan_requests.insert" \in fails
       THEN /\ Done(Response(500, "Failed to submit loan request. "), fails)
            /\ UNCHANGED <<loan_requests, loanForm>>
       ELSE /\ Done(Response(200, "Loan request submitted successfully!"), {})
            /\ loan_requests' = loan_requests @@ (NewId(loan_requests) :> row)
            /\ loanForm' = [loanForm EXCEPT !.amount = 0, !.guarantorId = NoText,
                                    !.guarantor2Id = NoText]

HandleSubmit ==
    /\ Cardinality(DOMAIN loan_requests) < MaxLoans
    /\ loanForm.user # NoText
    /\ \E fails \in MemberCreateFailSets : HandleSubmitOn(fails)

-----------------------------------------------------------------------------
(* The jobs an admin triggers from the dashboard, and the transaction        *)
(* export.  None of these handlers reads the Authorization header.           *)

\* who sends the request: anybody without a credential, or the admin's dashboard
JobCallers == {NoHeader, Admin}

\* the elements of a set, in the order the store returns them
RECURSIVE SeqOf(_)
SeqOf(S) ==
    IF S = {} THEN << >>
    ELSE LET x == CHOOSE y \in S : TRUE IN <<x>> \o SeqOf(S \ {x})

RECURSIVE Flatten(_)
Flatten(seqs) ==
    IF seqs = << >> THEN << >> ELSE Head(seqs) \o Flatten(Tail(seqs))

\* faulty variant: twice the amount
MonthlyDue_Doubled == 500 + 500

\* monthly-dues: the amount added to every member
MonthlyDue == 500

\* rpc increment_outstanding_amounts(amount_to_add): every profile that is not
\* an admin's owes amount_to_add more
increment_outstanding_amounts(p, amount_to_add) ==
    [u \in DOMAIN p |->
       IF p[u].role # "admin"
       THEN [p[u] EXCEPT !.outstanding_amount = @ + amount_to_add]
       ELSE p[u]]

MonthlyDuesOn(caller, fails) ==
    /\ UNCHANGED <<loan_requests, transactions, payment_proofs, notifications,
                   bucket>>
    /\ IF "rpc.increment_all" \in fails
       THEN /\ Reply("monthly-dues", caller, << >>, fails,
                     Response(500, "store error"))
            /\ UNCHANGED profiles
       ELSE /\ Reply("monthly-dues", caller, << >>, {},
                     Response(200,
                       "Successfully updated outstanding amounts for all users by 500."))
            /\ profiles' = increment_outstanding_amounts(profiles, MonthlyDue)

MonthlyDues ==
    /\ now <= MaxOps
    /\ \E caller \in JobCallers, fails \in FailSets(<<"rpc.increment_all">>) :
          MonthlyDuesOn(caller, fails)

-----------------------------------------------------------------------------
(* export-transactions and its toCsv.  Text is a sequence of characters; a   *)
(* text column holds [null, chars]; the value of any other column is turned  *)
(* into text as a single symbol that is none of the characters CSV treats    *)
(* specially.                                                                *)

Null == [null |-> TRUE, chars |-> << >>]
Text(chars) == [null |-> FALSE, chars |-> chars]

TextColumns == {"description", "user_full_name"}

ExportColumns ==
    <<"id", "created_at", "user_id", "type", "amount", "description",
      "user_full_name">>

\* row[col] === null || row[col] === undefined ? '' : String(row[col])
String(row, col) ==
    IF col \notin DOMAIN row THEN << >>
    ELSE IF col \in TextColumns
         THEN (IF row[col].null THEN << >> ELSE row[col].chars)
    ELSE IF col = "user_id" /\ row[col] = NoText THEN << >>
    ELSE IF col \in {"user_id", "type"} THEN <<row[col]>>
    ELSE <<ToString(row[col])>>

RECURSIVE replaceQuotes(_)
\* val.replace(/"/g, '""')
replaceQuotes(val) ==
    IF val = << >> THEN << >>
    ELSE (IF Head(val) = "\"" THEN <<"\"", "\"">> ELSE <<Head(val)>>)
         \o replaceQuotes(Tail(val))

includes(val, c) == \E i \in 1..Len(val) : val[i] = c

\* faulty variant: the quotes inside a quoted field are not doubled
escape_NoDoubling(val) ==
    IF includes(val, ",") \/ includes(val, "\"") \/ includes(val, "\n")
    THEN <<"\"">> \o val \o <<"\"">>
    ELSE val

\* the field as toCsv writes it
escape(val) ==
    IF includes(val, ",") \/ includes(val, "\"") \/ includes(val, "\n")
    THEN <<"\"">> \o replaceQuotes(val) \o <<"\"">>
    ELSE val

RECURSIVE join(_, _)
\* Array.prototype.join
join(parts, sep) ==
    IF parts = << >> THEN << >>
    ELSE IF Len(parts) = 1 THEN parts[1]
    ELSE parts[1] \o <<sep>> \o join(Tail(parts), sep)

toCsv(data, columns) ==
    LET header == join([i \in 1..Len(columns) |-> <<columns[i]>>], ",") \o <<"\n">>
        rows == join([r \in 1..Len(data) |->
                        join([i \in 1..Len(columns) |->
                                escape(String(data[r], columns[i]))], ",")],
                     "\n")
    IN  header \o rows

RECURSIVE orderByCreatedAtDesc(_)
\* .order('created_at', { ascending: false })
orderByCreatedAtDesc(rows) ==
    IF rows = << >> THEN << >>
    ELSE LET latest == CHOOSE i \in 1..Len(rows) :
                         /\ \A j \in 1..Len(rows) :
                               IsoGte(rows[i].created_at, rows[j].created_at)
                         /\ \A j \in 1..(i - 1) :
                               rows[j].created_at # rows[i].created_at
         IN  <<rows[latest]>>
             \o orderByCreatedAtDesc(
                    [k \in 1..(Len(rows) - 1) |->
                       IF k < latest THEN rows[k] ELSE rows[k + 1]])

\* the query's result: the store's rows with their ids, latest first
ExportedRows ==
    orderByCreatedAtDesc([i \in 1..Len(transactions) |->
                            [id |-> i] @@ transactions[i]])

\* export-transactions: the rows are read and sent as CSV, nothing is written
ExportTransactionsOn(caller, fails) ==
    /\ UNCHANGED <<tables, loanForm, inflight>>
    /\ now' = now + 1
    /\ IF "transactions.select" \in fails
       THEN last' = [op |-> "export-transactions", caller |-> caller,
                     req |-> << >>, failed |-> fails, code |-> 500,
                     msg |-> "store error"]
       ELSE last' = [op |-> "export-transactions", caller |-> caller,
                     req |-> << >>, failed |-> {}, code |-> 200,
                     msg |-> "text/csv",
                     csvData |-> toCsv(ExportedRows, ExportColumns)]

ExportTransactions ==
    /\ now <= MaxOps
    /\ \E caller \in JobCallers, fails \in FailSets(<<"transactions.select">>) :
          ExportTransactionsOn(caller, fails)

\* the characters of the text columns
CsvAlphabet == {"a", ",", "\"", "\n", "\r"}

\* the values of a text column: null, and the texts of up to MaxFieldLen
\* characters
TextCells ==
    {Null} \cup {Text(chars) : chars \in UNION {[1..k -> CsvAlphabet] : k \in 0..MaxFieldLen}}

\* a transactions table of manual entries with free text in two columns
CsvInit ==
    /\ profiles = [u \in UserIds |->
                     [role |-> IF u = Admin THEN "admin" ELSE "user",
                      outstanding_amount |-> 0]]
    /\ loan_requests = << >>
    /\ \E n \in 1..MaxCsvRows :
         \E cells \in [1..n -> TextCells \X TextCells] :
            transactions =
              [i \in 1..n |->
                 [user_id |-> "m1", type |-> "deposit", amount |-> 500,
                  created_at |-> [year |-> 2024, month |-> i, day |-> 1],
                  description |-> cells[i][1], user_full_name |-> cells[i][2]]]
    /\ payment_proofs = << >>
    /\ notifications = << >>
    /\ bucket = {}
    /\ now = 1
    /\ last = [op |-> "none", caller |-> NoHeader, req |-> << >>, failed |-> {}, code |-> 0, msg |-> ""]
    /\ loanForm = NoForm
    /\ inflight = << >>

CsvSpec == CsvInit /\ [][ExportTransactions]_vars

-----------------------------------------------------------------------------
(* notification-cron *)

\* the days the job runs on: the day of the other requests, the next day, the
\* 4th of the next month; eight days, a week, one day and no day ahead of the
\* due date of a loan approved on Today for three months; and a week ahead of
\* the due date of one approved for six months
CronDays ==
    { Today, addDays(Today, 1), addDays(Today, 4),
      [y |-> 2025, m |-> 3, d |-> 22], [y |-> 2025, m |-> 3, d |-> 23],
      [y |-> 2025, m |-> 3, d |-> 29], [y |-> 2025, m |-> 3, d |-> 30],
      [y |-> 2025, m |-> 6, d |-> 24] }

\* due_date.gte.from and due_date.lt.to
DueWithin(due_date, from, to) ==
    IsoGte(due_date, toISOString(from)) /\ IsoLt(due_date, toISOString(to))

\* faulty variant: a loan due a day ahead is picked up as well
DueSoon_Inclusive(due_date, today) ==
    \/ /\ IsoGte(due_date, toISOString(today))
       /\ ~IsoGte(due_date, toISOString(addDays(today, 2)))
    \/ DueWithin(due_date, addDays(today, 7), addDays(today, 8))

\* the or(...) filter of the loans query
DueSoon(due_date, today) ==
    \/ DueWithin(due_date, today, addDays(today, 1))
    \/ DueWithin(due_date, addDays(today, 7), addDays(today, 8))

\* the loans the query returns
LoansDue(today) ==
    { id \in DOMAIN loan_requests :
        /\ loan_requests[id].status \in {"in-process", "approved"}
        /\ loan_requests[id].due_date # NullDate
        /\ DueSoon(loan_requests[id].due_date, today) }

adminIds == {u \in DOMAIN profiles : profiles[u].role = "admin"}

\* the reminders of one loan: to the loanee, the guarantor and the admins
LoanReminders(loan) ==
    <<Notification(loan.user_id, "Loan Repayment Reminder", "/loan-request")>>
    \o (IF loan.guarantor_id # NoText
        THEN <<Notification(loan.guarantor_id, "Guaranteed Loan Reminder",
                            "/loan-request")>>
        ELSE << >>)
    \o [i \in 1..Cardinality(adminIds) |->
          Notification(SeqOf(adminIds)[i], "Loan Due Soon", "/admin/loans")]

\* the contribution reminders of the first and the last day of a month
ContributionReminders(today) ==
    IF today.d = 1 \/ today.d = DaysInMonth(today.y, today.m)
    THEN LET allUsers == SeqOf({u \in DOMAIN profiles : profiles[u].role = "user"})
         IN  [i \in 1..Len(allUsers) |->
                Notification(allUsers[i], "Monthly Contribution Reminder",
                             "/contribute")]
    ELSE << >>

\* the members without an approved proof for last month
nonContributors(today) ==
    LET startOfLastMonth == NewDate(today.y, today.m - 1, 1)
        startOfThisMonth == NewDate(today.y, today.m, 1)
        contributorIds ==
            { payment_proofs[i].user_id : i \in
                { j \in DOMAIN payment_proofs :
                    /\ payment_proofs[j].status = "approved"
                    /\ DueWithin(payment_proofs[j].contribution_month,
                                 startOfLastMonth, startOfThisMonth) } }
    IN  {u \in DOMAIN profiles : profiles[u].role = "user" /\ u \notin contributorIds}

\* the alerts of the 4th of a month
MissedContributionAlerts(today) ==
    IF today.d = 4 /\ nonContributors(today) # {} /\ adminIds # {}
    THEN [i \in 1..Cardinality(adminIds) |->
            Notification(SeqOf(adminIds)[i], "Missed Contributions Alert",
                         "/admin/contributions")]
    ELSE << >>

\* the notifications one run collects
notificationsToCreate(today) ==
    LET loans == SeqOf(LoansDue(today))
    IN  Flatten([i \in 1..Len(loans) |-> LoanReminders(loan_requests[loans[i]])])
        \o ContributionReminders(today)
        \o MissedContributionAlerts(today)

\* the store calls one run makes when none of them fails
CronCalls(today) ==
    <<"loan_requests.select">>
    \o (IF LoansDue(today) # {} THEN <<"profiles.names", "profiles.admins">>
        ELSE << >>)
    \o (IF today.d = 1 \/ today.d = DaysInMonth(today.y, today.m)
        THEN <<"profiles.users">> ELSE << >>)
    \o (IF today.d = 4
        THEN <<"profiles.all", "payment_proofs.select", "profiles.admins#2">>
        ELSE << >>)
    \o (IF notificationsToCreate(today) # << >> THEN <<"notifications.insert">>
        ELSE << >>)

\* the rows of `created` but those for which `keep` has an equal row
RECURSIVE Without(_, _)
Without(created, keep) ==
    IF created = << >> THEN << >>
    ELSE (IF \E i \in 1..Len(keep) : keep[i] = Head(created) THEN << >>
          ELSE <<Head(created)>>)
         \o Without(Tail(created), keep)

\* faulty variant: a notification that is already stored is not inserted again
insertNotifications_Once(rows, created) == rows \o Without(created, rows)

\* from('notifications').insert(notificationsToCreate)
insertNotifications(rows, created) == rows \o created

\* faulty variant: only the error of the insert is thrown
Throws_InsertOnly(calls, fails) == "notifications.insert" \in fails

\* every store call's error is thrown: the run ends at the first call that
\* fails
Throws(calls, fails) == \E i \in 1..Len(calls) : calls[i] \in fails

NotificationCronOn(caller, today, calls, created, fails) ==
    LET failing == {i \in 1..Len(calls) : calls[i] \in fails}
        req == [today |-> toISOString(today)]
    IN
    /\ UNCHANGED <<profiles, loan_requests, transactions, payment_proofs, bucket>>
    /\ IF Throws(calls, fails)
       THEN /\ Reply("notification-cron", caller, req,
                     {calls[CHOOSE i \in failing : \A j \in failing : i <= j]},
                     Response(500, "store error"))
            /\ UNCHANGED notifications
       ELSE /\ Reply("notification-cron", caller, req, {calls[i] : i \in failing},
                     Response(200, "Processed " \o ToString(Len(created))
                                   \o " in-app notifications."))
            /\ notifications' = insertNotifications(notifications, created)

NotificationCron ==
    /\ now <= MaxOps
    /\ \E today \in CronDays :
         \E calls \in {CronCalls(today)}, created \in {notificationsToCreate(today)} :
           \E caller \in JobCallers, fails \in FailSets(calls) :
              NotificationCronOn(caller, today, calls, created, fails)

-----------------------------------------------------------------------------
(* process-loan-request, admin-disburse-loan and admin-close-loan one store  *)
(* call at a time.  Each handler awaits its store calls in turn, so the      *)
(* calls of requests that run side by side interleave.  A request in flight  *)
(* keeps the handler's position (the store call it makes next) and the row   *)
(* it has read; no store call fails here.                                    *)

Request(op, body, pc) ==
    [op |-> op, body |-> body, pc |-> pc, loanRequest |-> << >>,
     code |-> 0, msg |-> ""]

\* the admin's requests on loan 1, and the first store call each handler makes
\* once the caller is known to be an admin and the body is complete
Requests ==
    { Request("process-loan-request", ProcessLoanBody(1, "approved", NoText),
              "loan_requests.select"),
      Request("process-loan-request", ProcessLoanBody(1, "rejected", "not eligible"),
              "loan_requests.select"),
      Request("admin-disburse-loan", [loanId |-> 1], "loan_requests.select"),
      Request("admin-close-loan", [loanId |-> 1], "loan_requests.update") }

\* a request arrives and passes the admin check and the body checks
ReceiveRequest ==
    /\ Len(inflight) < MaxRequests
    /\ \E r \in Requests : inflight' = Append(inflight, r)
    /\ now' = now + 1
    /\ UNCHANGED <<tables, last, loanForm>>

\* request i goes on to its next store call
Await(i, pc) ==
    /\ inflight' = [inflight EXCEPT ![i].pc = pc]
    /\ UNCHANGED <<last, now, loanForm>>

\* request i goes on, holding the row it read
AwaitWith(i, pc, row) ==
    /\ inflight' = [inflight EXCEPT ![i].pc = pc, ![i].loanRequest = <<row>>]
    /\ UNCHANGED <<last, now, loanForm>>

\* request i is answered
Return(i, resp) ==
    /\ inflight' = [inflight EXCEPT ![i].pc = "done", ![i].code = resp.code,
                                    ![i].msg = resp.msg]
    /\ last' = [op |-> inflight[i].op, caller |-> Admin, req |-> inflight[i].body,
                failed |-> {}, code |-> resp.code, msg |-> resp.msg]
    /\ UNCHANGED <<now, loanForm>>

Running(op) == {i \in DOMAIN inflight : inflight[i].op = op /\ inflight[i].pc # "done"}

ProcessLoanRequestStep ==
    \E i \in Running("process-loan-request") :
      LET r == inflight[i]
          body == r.body
          loanRequest == r.loanRequest[1]
      IN
      /\ UNCHANGED <<profiles, transactions, payment_proofs, notifications, bucket>>
      /\ CASE r.pc = "loan_requests.select" ->
                /\ UNCHANGED loan_requests
                /\ IF body.loanId \notin DOMAIN loan_requests
                   THEN Return(i, Response(500, "Loan request not found."))
                   ELSE IF AlreadyProcessed(loan_requests[body.loanId])
                   THEN Return(i, Response(500,
                                   "This loan request has already been processed."))
                   ELSE AwaitWith(i, IF body.status = "approved"
                                     THEN "loan_tiers.repayment_info"
                                     ELSE "loan_requests.update",
                                  loan_requests[body.loanId])
           [] r.pc = "loan_tiers.repayment_info" ->
                /\ UNCHANGED loan_requests
                /\ IF TiersFor(loanRequest.amount) = {}
                   THEN Return(i, Response(500, "Could not find loan tier"))
                   ELSE Await(i, "loan_requests.update")
           [] r.pc = "loan_requests.update" ->
                \* update ... where id = loanId: the row as it is now (the
                \* clock counts requests, so processed_at is the time of the
                \* latest request received)
                /\ loan_requests' =
                       [j \in DOMAIN loan_requests |->
                          IF j = body.loanId
                          THEN updateData(loan_requests[j], body, Admin,
                                          loanRequest.amount)
                          ELSE loan_requests[j]]
                /\ Return(i, Response(200,
                               "Loan request successfully " \o body.status \o "."))

AdminDisburseLoanStep ==
    \E i \in Running("admin-disburse-loan") :
      LET r == inflight[i]
          body == r.body
          loanRequest == r.loanRequest[1]
          loanTier == CHOOSE t \in TiersFor(loanRequest.amount) : TRUE
      IN
      /\ UNCHANGED <<payment_proofs, bucket>>
      /\ CASE r.pc = "loan_requests.select" ->
                /\ UNCHANGED <<profiles, loan_requests, transactions, notifications>>
                /\ IF body.loanId \notin DOMAIN loan_requests
                   THEN Return(i, Response(500, "Loan request not found."))
                   ELSE IF NotApproved(loan_requests[body.loanId])
                   THEN Return(i, Response(500,
                          "This loan is not in an approved state ready for disbursement."))
                   ELSE AwaitWith(i, "loan_tiers.fine", loan_requests[body.loanId])
           [] r.pc = "loan_tiers.fine" ->
                /\ UNCHANGED <<profiles, loan_requests, transactions, notifications>>
                /\ IF TiersFor(loanRequest.amount) = {}
                   THEN Return(i, Response(500, "Could not find loan tier"))
                   ELSE Await(i, "rpc.increment")
           [] r.pc = "rpc.increment" ->
                /\ profiles' = increment_user_outstanding_amount(
                                   profiles, loanRequest.user_id,
                                   totalAmountToAdd(loanRequest, loanTier))
                /\ UNCHANGED <<loan_requests, transactions, notifications>>
                /\ Await(i, "transactions.personal")
           [] r.pc = "transactions.personal" ->
                /\ transactions' =
                       Append(transactions,
                              [user_id |-> loanRequest.user_id, type |-> "withdrawal",
                               amount |-> loanRequest.amount,
                               created_at |-> toISOString(Today)])
                /\ UNCHANGED <<profiles, loan_requests, notifications>>
                /\ Await(i, "transactions.public")
           [] r.pc = "transactions.public" ->
                /\ transactions' =
                       Append(transactions,
                              [user_id |-> NoText, type |-> "withdrawal",
                               amount |-> loanRequest.amount,
                               created_at |-> toISOString(Today)])
                /\ UNCHANGED <<profiles, loan_requests, notifications>>
                /\ Await(i, "loan_requests.update")
           [] r.pc = "loan_requests.update" ->
                /\ loan_requests' =
                       [j \in DOMAIN loan_requests |->
                          IF j = body.loanId
                          THEN [loan_requests[j] EXCEPT !.status = "in-process"]
                          ELSE loan_requests[j]]
                /\ UNCHANGED <<profiles, transactions, notifications>>
                /\ Await(i, "notifications.insert")
           [] r.pc = "notifications.insert" ->
                /\ notifications' =
                       Append(notifications,
                              Notification(loanRequest.user_id, "Loan Disbursed",
                                           "/loan-request"))
                /\ UNCHANGED <<profiles, loan_requests, transactions>>
                /\ Return(i, Response(200, "Loan successfully disbursed."))

AdminCloseLoanStep ==
    \E i \in Running("admin-close-loan") :
      /\ UNCHANGED <<profiles, transactions, payment_proofs, notifications, bucket>>
      /\ loan_requests' =
             [j \in DOMAIN loan_requests |->
                IF j = inflight[i].body.loanId
                THEN [loan_requests[j] EXCEPT !.status = "closed",
                                              !.processed_at = now]
                ELSE loan_requests[j]]
      /\ Return(i, Response(200, "Loan marked as closed successfully"))

-----------------------------------------------------------------------------
(* process-payment-proof one store call at a time, in the same way *)

ProofRequest(body, pc) ==
    [op |-> "process-payment-proof", body |-> body, pc |-> pc, proof |-> << >>,
     code |-> 0, msg |-> ""]

\* the admin's decisions on proof 1
ProofRequests ==
    { ProofRequest(ProcessProofBody(1, "approved", NoText), "payment_proofs.select"),
      ProofRequest(ProcessProofBody(1, "rejected", "unreadable"),
                   "payment_proofs.select") }

\* a decision arrives and passes the admin check and the body checks
ReceiveProofRequest ==
    /\ Len(inflight) < MaxRequests
    /\ \E r \in ProofRequests : inflight' = Append(inflight, r)
    /\ now' = now + 1
    /\ UNCHANGED <<tables, last, loanForm>>

ProcessPaymentProofStep ==
    \E i \in Running("process-payment-proof") :
      LET r == inflight[i]
          body == r.body
          proof == r.proof[1]
      IN
      /\ UNCHANGED <<profiles, loan_requests>>
      /\ CASE r.pc = "payment_proofs.select" ->
                /\ UNCHANGED <<transactions, payment_proofs, notifications, bucket>>
                /\ IF body.proofId \notin DOMAIN payment_proofs
                   THEN Return(i, Response(500, "Payment proof not found."))
                   ELSE IF ProofAlreadyProcessed(payment_proofs[body.proofId])
                   THEN Return(i, Response(500,
                                   "This proof has already been processed."))
                   ELSE /\ inflight' =
                              [inflight EXCEPT
                                 ![i].pc = IF body.status = "approved"
                                           THEN "rpc.admin_create_transaction"
                                           ELSE "payment_proofs.update",
                                 ![i].proof = <<payment_proofs[body.proofId]>>]
                        /\ UNCHANGED <<last, now, loanForm>>
           [] r.pc = "rpc.admin_create_transaction" ->
                /\ transactions' = ApprovalDeposit(transactions, proof)
                /\ UNCHANGED <<payment_proofs, notifications, bucket>>
                /\ Await(i, "payment_proofs.update")
           [] r.pc = "payment_proofs.update" ->
                \* update ... where id = proofId: the row as it is now
                /\ payment_proofs' =
                       [j \in DOMAIN payment_proofs |->
                          IF j = body.proofId
                          THEN [payment_proofs[j] EXCEPT
                                  !.status = body.status, !.notes = body.notes,
                                  !.processed_by = Admin, !.processed_at = now]
                          ELSE payment_proofs[j]]
                /\ UNCHANGED <<transactions, notifications, bucket>>
                /\ Await(i, "notifications.insert")
           [] r.pc = "notifications.insert" ->
                /\ notifications' =
                       Append(notifications,
                              Notification(proof.user_id,
                                  IF body.status = "approved"
                                  THEN "Contribution Approved"
                                  ELSE "Contribution Rejected",
                                  "/contribute"))
                /\ UNCHANGED <<transactions, payment_proofs, bucket>>
                /\ Await(i, "storage.remove")
           [] r.pc = "storage.remove" ->
                /\ bucket' = bucket \ {proof.file_path}
                /\ UNCHANGED <<transactions, payment_proofs, notifications>>
                /\ Return(i, Response(200,
                               "Proof successfully " \o body.status \o "."))

-----------------------------------------------------------------------------
(* admin-get-monthly-contributions *)

MonthlyContributionsCalls ==
    <<"profiles.role", "profiles.select", "transactions.select">>

\* the body: a year and a 0-indexed month, either of which may be missing
MonthBody(year, month) == [year |-> year, month |-> month]

MonthBodies ==
    { MonthBody(2024, 10), MonthBody(2024, 11), MonthBody(2025, 0),
      MonthBody(2024, Undefined) }

\* date-fns startOfMonth and endOfMonth
startOfMonth(date) == NewDate(date.y, date.m, 1)

endOfMonth(date) == NewDate(date.y, date.m, DaysInMonth(date.y, date.m))

\* the members with a deposit of their own created within the month
paidUserIds(txs, aDate) ==
    LET startDate == toISOString(startOfMonth(aDate))
        endDate == toISOString(endOfMonth(aDate))
        monthlyDeposits ==
            { i \in 1..Len(txs) :
                /\ txs[i].type = "deposit"
                /\ txs[i].user_id # NoText
                /\ IsoGte(txs[i].created_at, startDate)
                /\ IsoGte(endDate, txs[i].created_at) }
    IN  { txs[i].user_id : i \in monthlyDeposits }

\* the list sent back: every profile of role 'user' with 'paid' or 'pending'
\* (an entry is kept under the member's id, where the handler sends the name)
contributionList(txs, aDate) ==
    [ u \in {u \in DOMAIN profiles : profiles[u].role = "user"} |->
        IF u \in paidUserIds(txs, aDate) THEN "paid" ELSE "pending" ]

\* the handler reads the profiles and the month's deposits; nothing is written
AdminGetMonthlyContributionsOn(caller, body, fails) ==
    LET auth == AdminCheck(caller, fails, "Admin user not authenticated")
        Done(resp, upto) ==
            [op |-> "admin-get-monthly-contributions", caller |-> caller,
             req |-> body,
             failed |-> fails \cap UpTo(MonthlyContributionsCalls, upto),
             code |-> resp.code, msg |-> resp.msg]
    IN
    /\ UNCHANGED <<tables, loanForm, inflight>>
    /\ now' = now + 1
    /\ IF auth.code # 0
       THEN last' = [Done(auth, "profiles.role") EXCEPT
                       !.failed = IF Authenticated(caller) THEN @ ELSE {}]
       ELSE IF body.year = Undefined \/ body.month = Undefined
       THEN last' = Done(Response(400, "Missing year or month."), "profiles.role")
       ELSE IF "profiles.select" \in fails
       THEN last' = Done(Response(500, "store error"), "profiles.select")
       ELSE IF "transactions.select" \in fails
       THEN last' = Done(Response(500, "store error"), "transactions.select")
       ELSE last' = Done(Response(200, "contributionList"), "transactions.select")
                    @@ [contributionList |->
                          contributionList(transactions,
                                           NewDate(body.year, body.month, 1))]

AdminGetMonthlyContributions ==
    /\ now <= MaxOps
    /\ \/ \E body \in MonthBodies, fails \in FailSets(MonthlyContributionsCalls) :
            AdminGetMonthlyContributionsOn(Admin, body, fails)
       \/ \E caller \in Callers \ {Admin}, fails \in RoleFailSets :
            AdminGetMonthlyContributionsOn(caller, MonthBody(2024, 11), fails)

-----------------------------------------------------------------------------
Next ==
    \/ AdminCreateLoan
    \/ ProcessLoanRequest
    \/ AdminDisburseLoan
    \/ AdminCloseLoan
    \/ SubmitPaymentProof
    \/ ProcessPaymentProof
    \/ AdminBulkAddContributions
    \/ OpenLoanRequestPage
    \/ SetAmount
    \/ SetGuarantorId
    \/ SetGuarantor2Id
    \/ HandleSubmit
    \/ AdminDeleteLoanRequest
    \/ AdminDeleteUser
    \/ AdminCreateUser
    \/ AdminDeletePaymentProof
    \/ MonthlyDues
    \/ ExportTransactions
    \/ NotificationCron
    \/ ReceiveRequest
    \/ ProcessLoanRequestStep
    \/ AdminDisburseLoanStep
    \/ AdminCloseLoanStep
    \/ ReceiveProofRequest
    \/ ProcessPaymentProofStep
    \/ AdminBulkCreateUsers
    \/ AdminGetMonthlyContributions

Spec == Init /\ [][Next]_vars

\* the loan lifecycle handlers alone
LoanNext ==
    \/ AdminCreateLoan
    \/ ProcessLoanRequest
    \/ AdminDisburseLoan
    \/ AdminCloseLoan

LoanSpec == Init /\ [][LoanNext]_vars

\* the store once m1 has submitted a proof for November 2024
ProofInit ==
    /\ profiles = [u \in UserIds |->
                     [role |-> IF u = Admin THEN "admin" ELSE "user",
                      outstanding_amount |-> 0]]
    /\ loan_requests = << >>
    /\ transactions = << >>
    /\ payment_proofs = (1 :> SubmittedProof("m1", SubmitProofForm(TRUE, 2024, 11), 0))
    /\ notifications = << >>
    /\ bucket = {FilePath("m1", 0)}
    /\ now = 1
    /\ last = [op |-> "submit-payment-proof", caller |-> "m1",
               req |-> SubmitProofForm(TRUE, 2024, 11), failed |-> {},
               code |-> 200, msg |-> "Proof submitted successfully"]
    /\ loanForm = NoForm
    /\ inflight = << >>

\* submissions and decisions from there on
ProofNext ==
    \/ SubmitPaymentProof
    \/ ProcessPaymentProof

ProofSpec == ProofInit /\ [][ProofNext]_vars

\* decisions on that proof side by side
ProofRaceNext ==
    \/ ReceiveProofRequest
    \/ ProcessPaymentProofStep

ProofRaceSpec == ProofInit /\ [][ProofRaceNext]_vars

\* the bulk creation of accounts alone
BulkUsersSpec == Init /\ [][AdminBulkCreateUsers]_vars

\* the contribution handlers alone
ContributionNext ==
    \/ SubmitPaymentProof
    \/ ProcessPaymentProof
    \/ AdminBulkAddContributions

ContributionSpec == Init /\ [][ContributionNext]_vars

\* the contribution handlers and the monthly list
MonthlyListNext ==
    \/ SubmitPaymentProof
    \/ ProcessPaymentProof
    \/ AdminBulkAddContributions
    \/ AdminGetMonthlyContributions

MonthlyListSpec == Init /\ [][MonthlyListNext]_vars

\* the handlers that open with the admin check, and the member's upload
GateNext ==
    \/ AdminDisburseLoan
    \/ AdminCloseLoan
    \/ ProcessLoanRequest
    \/ ProcessPaymentProof
    \/ AdminCreateLoan
    \/ AdminDeleteLoanRequest
    \/ AdminBulkAddContributions
    \/ AdminDeleteUser
    \/ AdminDeletePaymentProof
    \/ AdminCreateUser
    \/ SubmitPaymentProof

GateSpec == Init /\ [][GateNext]_vars

\* the jobs, with the handlers that give them loans to remind of
JobsNext ==
    \/ MonthlyDues
    \/ ExportTransactions
    \/ NotificationCron
    \/ AdminCreateLoan
    \/ ProcessLoanRequest

JobsSpec == Init /\ [][JobsNext]_vars

\* requests the members' pages have submitted: one of each tier
SubmittedRows ==
    { SubmittedRow("m1", 5000, NoText, NoText),
      SubmittedRow("m1", 20000, "m2", NoText),
      SubmittedRow("m2", 5000, NoText, NoText),
      SubmittedRow("m1", 100000, "m2", Admin) }

\* the store once members have submitted up to MaxLoans loan requests and
\* closed the page
SubmittedInit ==
    /\ profiles = [u \in UserIds |->
                     [role |-> IF u = Admin THEN "admin" ELSE "user",
                      outstanding_amount |-> 0]]
    /\ \E n \in 1..MaxLoans : loan_requests \in [1..n -> SubmittedRows]
    /\ transactions = << >>
    /\ payment_proofs = << >>
    /\ notifications = << >>
    /\ bucket = {}
    /\ now = 1
    /\ last = [op |-> "member-create-loan", caller |-> loan_requests[1].user_id,
               req |-> NoForm, failed |-> {}, code |-> 200,
               msg |-> "Loan request submitted successfully!"]
    /\ loanForm = NoForm
    /\ inflight = << >>

\* the store once a member has submitted one loan request
RaceInit ==
    /\ SubmittedInit
    /\ Len(loan_requests) = 1

\* the three loan handlers side by side on that loan
RaceNext ==
    \/ ReceiveRequest
    \/ ProcessLoanRequestStep
    \/ AdminDisburseLoanStep
    \/ AdminCloseLoanStep

RaceSpec == RaceInit /\ [][RaceNext]_vars

\* the reminder job on the loans members have asked for
CronNext ==
    \/ NotificationCron
    \/ ProcessLoanRequest
    \/ AdminDisburseLoan
    \/ AdminCloseLoan

CronSpec == SubmittedInit /\ [][CronNext]_vars

\* the member's loan request page alone
MemberNext ==
    \/ OpenLoanRequestPage
    \/ SetAmount
    \/ SetGuarantorId
    \/ SetGuarantor2Id
    \/ HandleSubmit

MemberSpec == Init /\ [][MemberNext]_vars

-----------------------------------------------------------------------------
(* What one request did: the step from the state before it to the state    *)
(* after it, read off the request and response kept in `last`.             *)

\* the rows the request appended to the transaction log
Added == SubSeq(transactions', Len(transactions) + 1, Len(transactions'))

\* the rows the request appended to the notifications
Notified == SubSeq(notifications', Len(notifications) + 1, Len(notifications'))

\* the request rewrote no earlier row of either log
LogsKept ==
    /\ Len(transactions') >= Len(transactions)
    /\ SubSeq(transactions', 1, Len(transactions)) = transactions
    /\ Len(notifications') >= Len(notifications)
    /\ SubSeq(notifications', 1, Len(notifications)) = notifications

Served(op) == last'.op = op

Succeeded(op) == last'.op = op /\ last'.code = 200

Refused == last'.code >= 400

\* the fine of the tier with the given amount
FineOf(amount) == (CHOOSE t \in LoanTiers : t.amount = amount).fine

\* the balance effects of a disbursement of `amount` to `borrower`: the
\* outstanding amount grows by amount + fine, nobody else's changes, and one
\* personal and one public withdrawal of the amount are logged
DisbursementEffects(borrower, amount) ==
    /\ profiles' = [profiles EXCEPT
                      ![borrower].outstanding_amount = @ + amount + FineOf(amount)]
    /\ LogsKept
    /\ Len(Added) = 2
    /\ \A i \in 1..2 : Added[i].type = "withdrawal" /\ Added[i].amount = amount
    /\ \E i, j \in 1..2 : Added[i].user_id = borrower /\ Added[j].user_id = NoText

-----------------------------------------------------------------------------
(* Claims on the loan lifecycle (LoanSpec). *)

\* C1: a successful admin-disburse-loan on an approved loan of amount A whose
\* tier has fine F raises the borrower's outstanding_amount by exactly A + F,
\* inserts exactly two withdrawals of A (one of the borrower, one without
\* owner) and leaves the loan in-process.
C1_DisburseEffects ==
    [][ /\ Succeeded("admin-disburse-loan")
        /\ last'.req.loanId \in DOMAIN loan_requests
        /\ loan_requests[last'.req.loanId].status = "approved"
        => LET loan == loan_requests[last'.req.loanId]
           IN  /\ DisbursementEffects(loan.user_id, loan.amount)
               /\ loan_requests'[last'.req.loanId].status = "in-process" ]_vars

\* C2: admin-disburse-loan on a loan whose status is not approved returns an
\* error and leaves the loan, every outstanding_amount, the transaction log
\* and the notifications unchanged.
C2_DisburseNeedsApproved ==
    [][ /\ Served("admin-disburse-loan")
        /\ last'.req.loanId \in DOMAIN loan_requests
        /\ loan_requests[last'.req.loanId].status # "approved"
        => /\ Refused
           /\ UNCHANGED <<loan_requests, profiles, transactions, notifications>>
      ]_vars

\* C2 witness: a disbursement was refused for a loan that is in-process.
C2_Witness ==
    /\ last.op = "admin-disburse-loan"
    /\ last.msg = "This loan is not in an approved state ready for disbursement."
    /\ loan_requests[last.req.loanId].status = "in-process"

\* C3: process-loan-request on a loan that is not pending returns an error and
\* leaves the loan row unchanged; on a pending loan it sets the status to the
\* requested value and to no other; a rejection without a reason is refused
\* before the loan is read.
C3_ProcessNeedsPending ==
    [][ Served("process-loan-request") =>
        LET body == last'.req
            known == body.loanId \in DOMAIN loan_requests
        IN  /\ (known /\ loan_requests[body.loanId].status # "pending")
                  => Refused /\ UNCHANGED loan_requests
            /\ (known /\ loan_requests[body.loanId].status = "pending")
                  => /\ last'.code = 200 =>
                          /\ body.status \in {"approved", "rejected"}
                          /\ loan_requests'[body.loanId].status = body.status
                     /\ last'.code # 200 => UNCHANGED loan_requests
            /\ (body.status = "rejected" /\ body.rejection_reason = NoText)
                  => /\ Refused
                     /\ UNCHANGED loan_requests
                     /\ "loan_requests.select" \notin last'.failed
                     /\ last'.msg \notin
                           {"Loan request not found.",
                            "This loan request has already been processed."}
      ]_vars

\* C3 witness: a second decision on an already approved loan was refused.
C3_Witness ==
    /\ last.op = "process-loan-request"
    /\ last.msg = "This loan request has already been processed."
    /\ loan_requests[last.req.loanId].status = "approved"

\* C4: close-loan is accepted only for an in-process loan: on a pending,
\* approved, rejected or closed loan it is rejected and the loan's status and
\* processed_at stay unchanged.
C4_CloseNeedsInProcess ==
    [][ /\ Served("admin-close-loan")
        /\ last'.req.loanId \in DOMAIN loan_requests
        /\ loan_requests[last'.req.loanId].status # "in-process"
        => /\ Refused
           /\ loan_requests'[last'.req.loanId].status
                 = loan_requests[last'.req.loanId].status
           /\ loan_requests'[last'.req.loanId].processed_at
                 = loan_requests[last'.req.loanId].processed_at ]_vars

\* C9: a successful admin-create-loan with status in-process or closed has the
\* balance effects of a disbursement (outstanding_amount up by amount + tier
\* fine, one personal and one public withdrawal of the amount); with status
\* pending or rejected no outstanding_amount changes and no Transaction is
\* inserted.
C9_HistoricalCreateEffects ==
    [][ Served("admin-create-loan") =>
        /\ (last'.code = 200 /\ last'.req.status \in {"in-process", "closed"})
              => DisbursementEffects(last'.req.userId, last'.req.amount)
        /\ last'.req.status \in {"pending", "rejected"}
              => UNCHANGED <<profiles, transactions>> ]_vars

\* C9 witness: a loan was entered as closed and its two withdrawals are logged.
C9_Witness ==
    /\ last.op = "admin-create-loan"
    /\ last.code = 200
    /\ last.req.status = "closed"
    /\ Len(transactions) >= 2
    /\ profiles[last.req.userId].outstanding_amount > 0

\* a well-formed admin-create-loan request of the admin during which no store
\* call failed
CreateLoanWellFormed ==
    /\ Served("admin-create-loan")
    /\ last'.caller = Admin
    /\ last'.failed = {}
    /\ last'.req \in ValidCreateLoanBodies

\* the request inserted a loan with the status it asked for
CreatedWithRequestedStatus ==
    /\ DOMAIN loan_requests' = DOMAIN loan_requests \cup {NewId(loan_requests)}
    /\ loan_requests'[NewId(loan_requests)].status = last'.req.status

\* C10 as stated: admin-create-loan accepts every one of the five loan statuses
\* as the initial status of the inserted loan.
C10_AcceptsEveryStatus ==
    [][ (CreateLoanWellFormed /\ last'.req.status \in LoanStatuses)
        => CreatedWithRequestedStatus ]_vars

\* C10 amended: admin-create-loan accepts pending, in-process, rejected and
\* closed as the initial status, and refuses approved with a 400 response
\* before anything is inserted.
C10_AcceptsFourStatuses ==
    [][ CreateLoanWellFormed =>
        /\ last'.req.status \in {"pending", "in-process", "rejected", "closed"}
              => CreatedWithRequestedStatus
        /\ last'.req.status = "approved"
              => /\ last'.code = 400
                 /\ UNCHANGED tables ]_vars

\* C10 witness: a request to enter an approved loan was answered with 400.
C10_Witness ==
    /\ last.op = "admin-create-loan"
    /\ last.caller = Admin
    /\ last.req.status = "approved"
    /\ last.code = 400

-----------------------------------------------------------------------------
(* Claims on contributions (ContributionSpec). *)

\* a process-payment-proof request that succeeded on a pending proof
ProofDecided(status) ==
    /\ Succeeded("process-payment-proof")
    /\ last'.req.status = status
    /\ last'.req.proofId \in DOMAIN payment_proofs
    /\ payment_proofs[last'.req.proofId].status = "pending"

\* the one deposit an approval of the proof is to log
ApprovalLogged(proof) ==
    /\ LogsKept
    /\ Added = << [user_id |-> proof.user_id, type |-> "deposit", amount |-> 500,
                   created_at |-> proof.contribution_month] >>

RejectionWithoutNotesRefused ==
    (Served("process-payment-proof") /\ last'.req.status = "rejected"
       /\ last'.req.notes = NoText)
    => Refused /\ UNCHANGED tables

C7_DecidedProofsAreTerminal ==
    [][ /\ Served("process-payment-proof")
        /\ last'.req.proofId \in DOMAIN payment_proofs
        /\ payment_proofs[last'.req.proofId].status \in {"approved", "rejected"}
        => /\ Refused
           /\ UNCHANGED <<transactions, notifications, bucket, payment_proofs>>
      ]_vars

\* C7 witness: a decision on an already rejected proof was refused.
C7_Witness ==
    /\ last.op = "process-payment-proof"
    /\ last.msg = "This proof has already been processed."
    /\ payment_proofs[last.req.proofId].status = "rejected"

\* the months of the body's range, counted from year 0, both ends included
RangeMonths(body) ==
    (body.startYear * 12 + body.startMonth)..(body.endYear * 12 + body.endMonth)

\* the first day of the month, as the store dates a row
FirstDayOf(month) ==
    [year |-> month \div 12, month |-> (month % 12) + 1, day |-> 1]

\* C8: admin-bulk-add-contributions over an inclusive range of N >= 1 months,
\* every store call succeeding, creates exactly N deposits of 500 for the
\* member, exactly one dated to the first day of each month of the range, and
\* reports N; when the end month precedes the start month it creates none and
\* reports 0.
C8_BulkBackfill ==
    [][ /\ Served("admin-bulk-add-contributions")
        /\ last'.caller = Admin
        /\ last'.failed = {}
        /\ last'.req.userId \in Members
        /\ last'.req.endMonth # Undefined
        => LET body == last'.req
               N == Cardinality(RangeMonths(body))
           IN  /\ last'.code = 200
               /\ last'.msg = "Successfully added " \o ToString(N)
                              \o " contributions."
               /\ LogsKept
               /\ Len(Added) = N
               /\ \A i \in 1..N :
                     /\ Added[i].user_id = body.userId
                     /\ Added[i].type = "deposit"
                     /\ Added[i].amount = 500
               /\ \A m \in RangeMonths(body) :
                     Cardinality({i \in 1..N :
                                    Added[i].created_at = FirstDayOf(m)}) = 1
      ]_vars

\* C8 witness: three months across the turn of the year were backfilled.
C8_Witness ==
    /\ last.op = "admin-bulk-add-contributions"
    /\ last.msg = "Successfully added 3 contributions."
    /\ last.req.endYear = 2025
    /\ Len(transactions) = 3

-----------------------------------------------------------------------------
(* Claims on loan creation (LoanSpec, MemberSpec). *)

\* C11: in every reachable state every loan_requests row has the amount of
\* some loan tier, whether the member's page or admin-create-loan inserted it.
C11_AmountsAreTierAmounts ==
    \A id \in DOMAIN loan_requests : loan_requests[id].amount \in TierAmounts

\* the guarantor rule of one loan request
GuarantorRule(row) ==
    /\ IF row.amount = 5000
       THEN row.guarantor_id = NoText /\ row.guarantor_2_id = NoText
       ELSE row.guarantor_id # NoText
    /\ row.amount = 100000 =>
          /\ row.guarantor_id # NoText /\ row.guarantor_2_id # NoText
          /\ row.guarantor_id # row.guarantor_2_id
    /\ row.user_id \notin {row.guarantor_id, row.guarantor_2_id}

\* C16: every loan request submitted through the member's page records a
\* guarantor unless the amount is the starter tier's 5000, in which case it
\* records none; for the top tier's 100000 it records two different
\* guarantors; and no recorded guarantor is the requesting member.
C16_GuarantorRule ==
    \A id \in DOMAIN loan_requests : GuarantorRule(loan_requests[id])

\* C16 witness: requests of all three kinds are stored: one for 100000 with
\* two guarantors and one for 5000 or 20000.
C16_Witness ==
    /\ \E id \in DOMAIN loan_requests :
          /\ loan_requests[id].amount = 100000
          /\ loan_requests[id].guarantor_2_id # NoText
    /\ \E id \in DOMAIN loan_requests : loan_requests[id].amount = 20000
    /\ last.op = "member-create-loan"

-----------------------------------------------------------------------------
(* Claims on who may call (GateSpec). *)

AdminGated ==
    {"admin-disburse-loan", "admin-close-loan", "process-loan-request",
     "process-payment-proof", "admin-create-loan", "admin-delete-loan-request",
     "admin-bulk-add-contributions", "admin-delete-user",
     "admin-delete-payment-proof", "admin-create-user"}

\* C12: for every admin-gated operation, a caller whose stored role is not
\* admin receives status 403 with the fixed error 'You must be an admin to
\* perform this action.', and no table and no stored file is changed.
C12_NonAdminRefused ==
    [][ /\ last'.op \in AdminGated
        /\ last'.caller \in DOMAIN profiles
        /\ profiles[last'.caller].role # "admin"
        => /\ last'.code = 403
           /\ last'.msg = "You must be an admin to perform this action."
           /\ UNCHANGED tables ]_vars

\* C12 witness: a member's attempt to decide a pending proof was refused.
C12_Witness ==
    /\ last.op = "process-payment-proof"
    /\ last.caller \in Members
    /\ last.code = 403
    /\ last.req.proofId \in DOMAIN payment_proofs
    /\ payment_proofs[last.req.proofId].status = "pending"

-----------------------------------------------------------------------------
(* Claims on the jobs (JobsSpec, CronSpec). *)

\* C13: every backend operation, the monthly-dues job, the notification-cron
\* job and the CSV export included, aborts before any side effect when the
\* request carries no valid bearer credential: no outstanding_amount changes
\* and no notification is inserted.
C13_UnauthenticatedAborts ==
    [][ last'.caller \in {NoHeader, BadToken}
        => /\ Refused
           /\ UNCHANGED <<profiles, notifications>> ]_vars

\* the stored date n days after the given one
IsoPlusDays(iso, n) ==
    toISOString(addDays([y |-> iso.year, m |-> iso.month - 1, d |-> iso.day], n))

\* the loan is one the run of the given day is to remind of
ReminderDue(loan, todayIso) ==
    /\ loan.status \in {"in-process", "approved"}
    /\ loan.due_date # NullDate
    /\ loan.due_date \in {todayIso, IsoPlusDays(todayIso, 7)}

\* how many of the rows have the given owner and title
Count(rows, user_id, title) ==
    Cardinality({i \in 1..Len(rows) :
                   rows[i].user_id = user_id /\ rows[i].title = title})

LoanReminderTitles ==
    {"Loan Repayment Reminder", "Guaranteed Loan Reminder", "Loan Due Soon"}

\* C14: on one run of notification-cron a loan produces reminders if and
\* only if its status is in-process or approved, its due date is set and the
\* due date falls on the day of the run or on the seventh day after it; each
\* such loan produces exactly one reminder to the borrower, one to the
\* guarantor when one is recorded, and one to every admin profile.
C14_RemindersForDueLoans ==
    [][ Succeeded("notification-cron") =>
        LET due == {id \in DOMAIN loan_requests :
                      ReminderDue(loan_requests[id], last'.req.today)}
        IN  /\ LogsKept
            /\ \A u \in UserIds :
                  /\ Count(Notified, u, "Loan Repayment Reminder")
                       = Cardinality({id \in due : loan_requests[id].user_id = u})
                  /\ Count(Notified, u, "Guaranteed Loan Reminder")
                       = Cardinality({id \in due :
                                        loan_requests[id].guarantor_id = u})
                  /\ Count(Notified, u, "Loan Due Soon")
                       = IF profiles[u].role = "admin" THEN Cardinality(due) ELSE 0
            /\ \A i \in 1..Len(Notified) :
                  Notified[i].title \in LoanReminderTitles
                     => Notified[i].user_id \in UserIds ]_vars

\* C14 witness: a run a week ahead reminded of an in-process loan without a
\* guarantor: the borrower and the admin were told, nobody else.
C14_Witness ==
    /\ last.op = "notification-cron"
    /\ last.code = 200
    /\ \E id \in DOMAIN loan_requests :
          /\ loan_requests[id].status = "in-process"
          /\ loan_requests[id].guarantor_id = NoText
          /\ loan_requests[id].due_date = IsoPlusDays(last.req.today, 7)
    /\ Count(notifications, "m1", "Loan Repayment Reminder") = 1
    /\ Count(notifications, Admin, "Loan Due Soon") = 1
    /\ \A u \in UserIds : Count(notifications, u, "Guaranteed Loan Reminder") = 0

-----------------------------------------------------------------------------
(* C15: the reference reader of RFC 4180 text.  A record ends at CRLF or at  *)
(* LF; a field that starts with a double quote runs to its closing quote,    *)
(* with a doubled quote standing for one; anything else is data.             *)

RECURSIVE ParseCsvFrom(_, _, _, _, _, _)
ParseCsvFrom(s, i, mode, field, rec, recs) ==
    IF i > Len(s)
    THEN (IF mode = "start" /\ rec = << >> THEN recs
          ELSE Append(recs, Append(rec, field)))
    ELSE LET c == s[i]
             crlf == c = "\r" /\ i < Len(s) /\ s[i + 1] = "\n"
             endField == ParseCsvFrom(s, i + 1, "start", << >>, Append(rec, field), recs)
             endRecord(n) ==
                 ParseCsvFrom(s, i + n, "start", << >>, << >>,
                              Append(recs, Append(rec, field)))
         IN  IF mode = "quoted"
             THEN (IF c # "\"" THEN ParseCsvFrom(s, i + 1, "quoted", Append(field, c), rec, recs)
                   ELSE IF i < Len(s) /\ s[i + 1] = "\""
                        THEN ParseCsvFrom(s, i + 2, "quoted", Append(field, "\""), rec, recs)
                   ELSE ParseCsvFrom(s, i + 1, "closed", field, rec, recs))
             ELSE IF c = "," THEN endField
             ELSE IF c = "\n" THEN endRecord(1)
             ELSE IF crlf THEN endRecord(2)
             ELSE IF mode = "start" /\ c = "\""
                  THEN ParseCsvFrom(s, i + 1, "quoted", << >>, rec, recs)
             ELSE ParseCsvFrom(s, i + 1, "text", Append(field, c), rec, recs)

ParseCsv(s) == ParseCsvFrom(s, 1, "start", << >>, << >>, << >>)

Exported == last.op = "export-transactions" /\ last.code = 200

\* the text an exported value is expected to come back as: itself, and the
\* empty text for a value that is null or missing
Original(row, col) == String(row, col)

\* C15 (as stated, reading null back as the empty text): parsing the CSV that
\* export-transactions sends gives the header and then, for every row and
\* every column, the exported value of that field, whatever characters the
\* text columns hold: commas, double quotes, line feeds, carriage returns.
C15_CsvRoundTrips ==
    Exported =>
        LET parsed == ParseCsv(last.csvData)
            rows == ExportedRows
        IN  /\ Len(parsed) = 1 + Len(rows)
            /\ parsed[1] = [i \in 1..Len(ExportColumns) |-> <<ExportColumns[i]>>]
            /\ \A r \in 1..Len(rows) :
                  /\ Len(parsed[r + 1]) = Len(ExportColumns)
                  /\ \A i \in 1..Len(ExportColumns) :
                        parsed[r + 1][i] = Original(rows[r], ExportColumns[i])

\* the same round trip for the tables none of whose texts holds a carriage
\* return (not a claim: it shows the reader and the quoting agree elsewhere)
CsvRoundTripsWithoutCR ==
    (\A r \in 1..Len(transactions) : \A col \in TextColumns :
         col \in DOMAIN transactions[r] =>
            ~includes(transactions[r][col].chars, "\r"))
    => C15_CsvRoundTrips

-----------------------------------------------------------------------------
(* C19, C20: write failures and the off-tier amount *)

\* the store writes of admin-disburse-loan
DisburseWrites ==
    {"rpc.increment", "transactions.personal", "transactions.public",
     "loan_requests.update"}

\* C19 (as stated): an admin-disburse-loan request during which the increment,
\* either Transaction insert or the status update failed answers with an
\* error, and never with 'Loan successfully disbursed.'.
C19_WriteFailuresSurface ==
    [][ (Served("admin-disburse-loan") /\ last'.failed \cap DisburseWrites # {})
        => /\ Refused
           /\ last'.msg # "Loan successfully disbursed." ]_vars

\* C20 (as stated): an admin-create-loan request with status in-process or
\* closed and an amount that matches no tier is refused and changes nothing:
\* no loan row is inserted, no outstanding amount and no Transaction changes.
C20_OffTierAbortsBeforeWrites ==
    [][ (/\ Served("admin-create-loan")
         /\ last'.req.status \in {"in-process", "closed"}
         /\ last'.req.amount = OffTierAmount)
        => /\ Refused
           /\ UNCHANGED <<loan_requests, profiles, transactions>> ]_vars

-----------------------------------------------------------------------------
(* C17, C18: the loan handlers side by side *)

\* the admin-disburse-loan requests on loan 1 that were answered 200
Disbursed ==
    {i \in DOMAIN inflight :
        /\ inflight[i].op = "admin-disburse-loan"
        /\ inflight[i].pc = "done"
        /\ inflight[i].code = 200}

Withdrawals(user_id, amount) ==
    {i \in DOMAIN transactions :
        /\ transactions[i].type = "withdrawal"
        /\ transactions[i].user_id = user_id
        /\ transactions[i].amount = amount}

\* the loan was disbursed twice over: the borrower owes 2 * (amount + fine)
\* and four withdrawals of the amount are logged, two personal and two public
DisbursedTwice ==
    LET loan == loan_requests[1]
    IN  /\ profiles[loan.user_id].outstanding_amount
              = 2 * (loan.amount + FineOf(loan.amount))
        /\ Cardinality(Withdrawals(loan.user_id, loan.amount)) = 2
        /\ Cardinality(Withdrawals(NoText, loan.amount)) = 2
        /\ Len(transactions) = 4

\* C17: when two admin-disburse-loan requests on the same approved loan have
\* both passed the status check and been answered 200, and no further
\* disbursement is under way, the borrower's outstanding amount has grown by
\* 2 * (amount + fine) and four withdrawals exist.
C17_DoubleDisbursement ==
    (Cardinality(Disbursed) = 2 /\ Running("admin-disburse-loan") = {})
        => DisbursedTwice

\* C17 witness: two disbursements of one loan were both answered 200 and the
\* loan is disbursed twice over.
C17_Witness ==
    /\ Cardinality(Disbursed) = 2
    /\ Running("admin-disburse-loan") = {}
    /\ DisbursedTwice

\* C18 (as stated): whatever the interleaving of process-loan-request,
\* admin-disburse-loan and admin-close-loan, a loan's status never goes from
\* in-process or closed back to approved or pending, and a rejected loan stays
\* rejected.
C18_StatusOnlyMovesForward ==
    [][ \A i \in DOMAIN loan_requests \cap DOMAIN loan_requests' :
          /\ loan_requests[i].status \in {"in-process", "closed"}
                => loan_requests'[i].status \notin {"approved", "pending"}
          /\ loan_requests[i].status = "rejected"
                => loan_requests'[i].status = "rejected" ]_vars

\* the part of C18 that the missing status check of admin-close-loan does not
\* decide: the status never goes from in-process or closed back to approved,
\* pending or rejected
StatusNeverGoesBack ==
    [][ \A i \in DOMAIN loan_requests \cap DOMAIN loan_requests' :
          loan_requests[i].status \in {"in-process", "closed"}
             => loan_requests'[i].status \in {"in-process", "closed"} ]_vars

-----------------------------------------------------------------------------
(* C21: a backfill that fails part-way *)

\* the call of the transaction routine that failed during the request (0 when
\* none did)
FailedMonth ==
    IF \E k \in 1..MaxTx : CreateTransactionCall(k) \in last'.failed
    THEN CHOOSE k \in 1..MaxTx : CreateTransactionCall(k) \in last'.failed
    ELSE 0

\* the k-th month of the body's range, counted from year 0
NthMonth(body, k) == body.startYear * 12 + body.startMonth + k - 1

\* C21: when the transaction-creating call of admin-bulk-add-contributions
\* fails at the k-th month of the range, the k-1 deposits made before it stay
\* posted (one for each of the first k-1 months), nothing is posted for the
\* k-th or any later month, and the answer is an error naming the k-th month.
C21_BulkBackfillNotAtomic ==
    [][ (Served("admin-bulk-add-contributions") /\ FailedMonth # 0)
        => LET body == last'.req
               k == FailedMonth
               failedAt == NthMonth(body, k)
           IN  /\ last'.code = 500
               /\ last'.msg = "Failed to create transaction for "
                              \o MonthNames[(failedAt % 12) + 1] \o " "
                              \o ToString(failedAt \div 12)
               /\ LogsKept
               /\ Len(Added) = k - 1
               /\ \A i \in 1..(k - 1) :
                     /\ Added[i].user_id = body.userId
                     /\ Added[i].type = "deposit"
                     /\ Added[i].amount = 500
                     /\ Added[i].created_at = FirstDayOf(NthMonth(body, i))
      ]_vars

\* C21 witness: the backfill of a range failed at its second month and the
\* first month's deposit is posted.
C21_Witness ==
    /\ last.op = "admin-bulk-add-contributions"
    /\ last.failed = {CreateTransactionCall(2)}
    /\ last.code = 500
    /\ Len(transactions) = 1
    /\ transactions[1].type = "deposit"

-----------------------------------------------------------------------------
(* C22, C23: outstanding amounts and the transaction log *)

\* a sign for deposits and a sign for withdrawals
SignConventions == [{"deposit", "withdrawal"} -> {1, 0 - 1}]

RECURSIVE SignedSum(_, _, _)
\* the signed sum of the member's own rows of the log
SignedSum(txs, user_id, sign) ==
    IF txs = << >> THEN 0
    ELSE (IF Head(txs).user_id = user_id
          THEN sign[Head(txs).type] * Head(txs).amount ELSE 0)
         + SignedSum(Tail(txs), user_id, sign)

\* every member owes the signed sum of that member's transactions
BalancedUnder(p, txs, sign) ==
    \A m \in Members \cap DOMAIN p :
        p[m].outstanding_amount = SignedSum(txs, m, sign)

LedgerOps ==
    {"admin-disburse-loan", "admin-create-loan", "process-payment-proof",
     "admin-bulk-add-contributions", "monthly-dues"}

\* C22 (as stated): a successful disburse, historical-create, proof-approval,
\* bulk-backfill or monthly-dues operation that starts where every member's
\* outstanding_amount equals the signed sum of that member's own Transactions
\* under some sign convention ends in a state where it still does under that
\* convention (the initial state balances under every convention: nothing
\* owed, empty log).
C22_OutstandingIsSignedSum ==
    [][ (/\ last'.op \in LedgerOps
         /\ last'.code = 200
         /\ \E sign \in SignConventions :
               BalancedUnder(profiles, transactions, sign))
        => \E sign \in SignConventions :
              /\ BalancedUnder(profiles, transactions, sign)
              /\ BalancedUnder(profiles', transactions', sign) ]_vars

-----------------------------------------------------------------------------
(* C24: notification-cron run twice *)

\* the step is a successful run of notification-cron right after a successful
\* run for the same day
SecondRunOfTheDay ==
    /\ Succeeded("notification-cron")
    /\ last.op = "notification-cron"
    /\ last.code = 200
    /\ last.req = last'.req

\* C24: a second run of notification-cron on the same day, nothing having
\* changed in between, inserts the notifications of the first run once more:
\* the rows it adds equal the rows the first run added, so every reminder of a
\* due-soon loan is stored at least twice.
C24_SecondRunDuplicates ==
    [][ SecondRunOfTheDay =>
        LET n == Len(Notified)
        IN  /\ LogsKept
            /\ Len(notifications) >= n
            /\ SubSeq(notifications, Len(notifications) - n + 1,
                      Len(notifications)) = Notified
            /\ \A id \in DOMAIN loan_requests :
                  ReminderDue(loan_requests[id], last'.req.today)
                     => /\ Count(notifications', loan_requests[id].user_id,
                                 "Loan Repayment Reminder") >= 2
                        /\ Count(notifications', Admin, "Loan Due Soon") >= 2
                        /\ loan_requests[id].guarantor_id # NoText
                             => Count(notifications', loan_requests[id].guarantor_id,
                                      "Guaranteed Loan Reminder") >= 2
      ]_vars

\* C24 witness: two runs on the day an approved loan with a guarantor falls
\* due left two copies of each of its three reminders.
C24_Witness ==
    /\ last.op = "notification-cron"
    /\ last.code = 200
    /\ \E id \in DOMAIN loan_requests :
          /\ ReminderDue(loan_requests[id], last.req.today)
          /\ loan_requests[id].guarantor_id = "m2"
    /\ Len(notifications) = 6
    /\ SubSeq(notifications, 1, 3) = SubSeq(notifications, 4, 6)
    /\ Count(notifications, "m1", "Loan Repayment Reminder") = 2
    /\ Count(notifications, "m2", "Guaranteed Loan Reminder") = 2
    /\ Count(notifications, Admin, "Loan Due Soon") = 2

-----------------------------------------------------------------------------
(* C27: notification-cron is all-or-nothing *)

\* C27: a run of notification-cron during which a store call failed (any of
\* its reads, or the batch insert) answers with an error and inserts no
\* notification; a run that succeeds appends its notifications in one batch
\* and reports their number.
C27_CronAllOrNothing ==
    [][ Served("notification-cron") =>
        /\ LogsKept
        /\ last'.failed # {} => Refused
        /\ Refused => UNCHANGED notifications
        /\ last'.code = 200 =>
              last'.msg = "Processed " \o ToString(Len(Notified))
                          \o " in-app notifications."
      ]_vars

\* C27 witness: on the day a loan falls due the read of the admins failed and
\* the run, which had the borrower's reminder ready, inserted nothing.
C27_Witness ==
    /\ last.op = "notification-cron"
    /\ last.code = 500
    /\ last.failed = {"profiles.admins"}
    /\ \E id \in DOMAIN loan_requests :
          ReminderDue(loan_requests[id], last.req.today)
    /\ notifications = << >>

-----------------------------------------------------------------------------
(* C25: two proofs for one month *)

\* the proofs of the member for the month, but the one with the given id
OtherProofs(proofs, id, user_id, month) ==
    {j \in DOMAIN proofs \ {id} :
        proofs[j].user_id = user_id /\ proofs[j].contribution_month = month}

\* the deposits of 500 booked to the member for the month
MonthDeposits(txs, user_id, month) ==
    {i \in 1..Len(txs) :
        /\ txs[i].user_id = user_id /\ txs[i].type = "deposit"
        /\ txs[i].amount = 500 /\ txs[i].created_at = month}

\* C25: a successful submit-payment-proof by a member who already has a proof
\* for the same contribution month adds a further pending proof of its own and
\* leaves the earlier ones as they are; a successful approval of a proof books
\* one more deposit of 500 for the member dated to that month although another
\* proof of the member for the month is already approved.
C25_DuplicateProofsAndDeposits ==
    [][ /\ (/\ Succeeded("submit-payment-proof")
            /\ \E j \in DOMAIN payment_proofs :
                  /\ payment_proofs[j].user_id = last'.caller
                  /\ payment_proofs[j].contribution_month
                        = FirstDayOf(last'.req.year * 12 + last'.req.month - 1))
           => \E id \in DOMAIN payment_proofs' \ DOMAIN payment_proofs :
                 /\ DOMAIN payment_proofs' = DOMAIN payment_proofs \cup {id}
                 /\ \A j \in DOMAIN payment_proofs :
                       payment_proofs'[j] = payment_proofs[j]
                 /\ payment_proofs'[id].status = "pending"
                 /\ payment_proofs'[id].user_id = last'.caller
                 /\ payment_proofs'[id].contribution_month
                       = FirstDayOf(last'.req.year * 12 + last'.req.month - 1)
        /\ (/\ Succeeded("process-payment-proof")
            /\ last'.req.status = "approved"
            /\ \E j \in OtherProofs(payment_proofs, last'.req.proofId,
                                    payment_proofs[last'.req.proofId].user_id,
                                    payment_proofs[last'.req.proofId].contribution_month) :
                  payment_proofs[j].status = "approved")
           => LET proof == payment_proofs[last'.req.proofId]
              IN  /\ payment_proofs'[last'.req.proofId].status = "approved"
                  /\ Cardinality(MonthDeposits(transactions', proof.user_id,
                                               proof.contribution_month))
                       = Cardinality(MonthDeposits(transactions, proof.user_id,
                                                   proof.contribution_month)) + 1
      ]_vars

\* C25 witness: m1's two proofs for November 2024 are both approved and two
\* deposits of 500 dated to that month are booked to m1.
C25_Witness ==
    /\ DOMAIN payment_proofs = {1, 2}
    /\ \A id \in {1, 2} :
          /\ payment_proofs[id].user_id = "m1"
          /\ payment_proofs[id].status = "approved"
          /\ payment_proofs[id].contribution_month = FirstDayOf(2024 * 12 + 10)
    /\ payment_proofs[1].file_path # payment_proofs[2].file_path
    /\ Cardinality(MonthDeposits(transactions, "m1", FirstDayOf(2024 * 12 + 10))) = 2

-----------------------------------------------------------------------------
(* C26: decisions on one proof side by side *)

\* C26 (as stated): once every process-payment-proof request on proof 1 is
\* answered, whatever their interleaving, exactly one deposit was created for
\* the proof if it ended approved and none if it ended rejected.
C26_OneDepositPerApprovedProof ==
    (inflight # << >> /\ Running("process-payment-proof") = {})
    => LET proof == payment_proofs[1]
           deposits == MonthDeposits(transactions, proof.user_id,
                                     proof.contribution_month)
       IN  /\ proof.status = "approved" => Cardinality(deposits) = 1
           /\ proof.status = "rejected" => Cardinality(deposits) = 0

-----------------------------------------------------------------------------
(* C28: admin-bulk-create-users *)

\* the elements of the array that the request is to report as created: both
\* names present and the account creation did not fail
Created(users, failed) ==
    {i \in 1..Len(users) :
       /\ ~users[i].isNull
       /\ users[i].firstName # NoText /\ users[i].lastName # NoText
       /\ CreateUserCall(i) \notin failed}

RECURSIVE NamesOf(_, _, _)
\* the names of the elements from the i-th on that are (are not) in the set
NamesOf(users, i, S) ==
    IF i > Len(users) THEN << >>
    ELSE (IF i \in S THEN <<fullName(users[i])>> ELSE << >>)
         \o NamesOf(users, i + 1, S)

\* the request answered with the two lists: every element of the array is in
\* exactly one of them (the created ones in successes, the others in
\* failures, each list in the array's order), and an account was made for
\* every element in successes, also for those after a failure
FailuresIsolated ==
    LET users == last'.req.users
        ok == Created(users, last'.failed)
        results == last'.results
    IN  /\ last'.code = 200
        /\ Len(results.successes) + Len(results.failures) = Len(users)
        /\ [i \in 1..Len(results.successes) |-> results.successes[i].name]
              = NamesOf(users, 1, ok)
        /\ [i \in 1..Len(results.failures) |-> results.failures[i].name]
              = NamesOf(users, 1, (1..Len(users)) \ ok)
        /\ Cardinality(DOMAIN profiles') = Cardinality(DOMAIN profiles)
                                           + Cardinality(ok)

\* C28 (as stated): for every users array the admin sends,
\* admin-bulk-create-users puts each element in exactly one of successes and
\* failures, the lengths of the two lists sum to the length of the array, and
\* a user that fails does not keep any later user from being attempted.
C28_BulkCreateIsolatesFailures ==
    [][ (/\ Served("admin-bulk-create-users")
         /\ last'.caller = Admin
         /\ "profiles.role" \notin last'.failed
         /\ last'.req.isArray)
        => FailuresIsolated ]_vars

\* the same for the arrays that hold no null (not a claim: it shows where the
\* isolation does hold)
BulkCreateIsolatesFailuresOfObjects ==
    [][ (/\ Served("admin-bulk-create-users")
         /\ last'.caller = Admin
         /\ "profiles.role" \notin last'.failed
         /\ last'.req.isArray
         /\ \A i \in 1..Len(last'.req.users) : ~last'.req.users[i].isNull)
        => FailuresIsolated ]_vars

-----------------------------------------------------------------------------
(* C29: submit-payment-proof leaves no orphaned file *)

-----------------------------------------------------------------------------
(* C30: the two views of who has contributed *)

\* the months the lists are asked for, as the first day of each
ListedMonths == { NewDate(b.year, b.month, 1) : b \in MonthBodies \ {MonthBody(2024, Undefined)} }

\* the members the list of admin-get-monthly-contributions shows as 'pending'
PendingIn(month) ==
    { u \in DOMAIN contributionList(transactions, month) :
        contributionList(transactions, month)[u] = "pending" }

\* the members notification-cron counts as non-contributors of the month, which
\* it does on a day of the month after
NonContributorsOf(month) == nonContributors(NewDate(month.y, month.m + 1, 4))

\* C30: in every state reached through submissions, decisions on proofs and
\* bulk backfill, and for every month, the members notification-cron counts as
\* non-contributors of the month are the members the monthly list shows as
\* 'pending' for it
C30_SameNonContributors ==
    \A month \in ListedMonths : NonContributorsOf(month) = PendingIn(month)

====
